---------------------------- MODULE Spec2Model ----------------------------
(***************************************************************************)
(* A model of monoio-thrift: the Thrift Binary protocol reader, skipper    *)
(* and writer (src/src/binary.rs), the type model (src/src/thrift.rs) and  *)
(* the TTHeader / framed transport codecs (src/src/codec).                 *)
(*                                                                         *)
(* Representation.  A byte is a number in 0..255 and a buffer a sequence   *)
(* of bytes.  An i32 is a number in -2^31..2^31-1; a u32 or a usize that   *)
(* the code obtains with `as u32` / `as usize` from an i32 is kept as that *)
(* i32 (its bit pattern) and every comparison or arithmetic step on it is  *)
(* written out for the two signs.  usize is 64 bits wide.  An i64 or f64   *)
(* is the pair of its high and low 32-bit words.                           *)
(***************************************************************************)
EXTENDS Integers, Sequences, FiniteSets, TLC

VARIABLES
    mode,   \* the component this behaviour exercises
    \* the synchronous reader TBinaryProtocol<Cursor<&[u8]>, A> in skip_field
    sk,     \* the skip machine: trans (buf, pos), current, stack, result
    stype,  \* the TType skip_field was called with
    skind,  \* how the input was built: "valid", "short", "badtag", "hostile"
    sstart, \* cursor position when skip_field was called
    svlen,  \* length of the encoded value (valid inputs)
    \* the synchronous reader running a sequence of read_* calls
    rd,     \* [buf, pos, script, pc, out, last, st]
    \* the asynchronous reader TBinaryProtocol<IO, BytesMut> running the calls
    ar,     \* [stream, iopos, att, fill, script, pc, stage, acc, out, st, tag]
    \* the asynchronous skipper TBinaryProtocol<IO, Cursor<BytesMut>>
    ak,     \* [stream, iopos, reads, m, fill]
    \* the writer TBinaryProtocol<&mut BytesMut, PositionStack>
    wr,     \* [trans, att, st]
    wg,     \* what the calls made so far promise: [open, calls, last]
    \* the TTHeader codecs over one buffer
    th      \* [src, items, st, ...]

skipVars == <<sk, stype, skind, sstart, svlen>>
vars == <<mode, skipVars, rd, ar, ak, wr, wg, th>>

----------------------------------------------------------------------------
(* Bytes and fixed-width integers                                          *)

Byte == 0..255

MinI32 == -2147483647 - 1
MaxI32 == 2147483646 + 1

\* i32::to_be_bytes / BufMut::put_i32: the big-endian two's complement bytes
to_be_bytes_i32(i) ==
    << (i \div 16777216) % 256, (i \div 65536) % 256, (i \div 256) % 256, i % 256 >>

\* i32::from_be_bytes / Buf::get_i32 / ReadBytesExt::read_i32::<BigEndian>
from_be_bytes_i32(b) ==
    (IF b[1] >= 128 THEN b[1] - 256 ELSE b[1]) * 16777216
        + b[2] * 65536 + b[3] * 256 + b[4]

\* i16::to_be_bytes / put_i16 / put_u16
to_be_bytes_i16(i) == << (i \div 256) % 256, i % 256 >>

\* i16::from_be_bytes / get_i16
from_be_bytes_i16(b) == (IF b[1] >= 128 THEN b[1] - 256 ELSE b[1]) * 256 + b[2]

\* u16::from_be_bytes / get_u16
from_be_bytes_u16(b) == b[1] * 256 + b[2]

\* i8 <-> u8 (put_i8 / get_i8)
i8_to_u8(i) == i % 256
u8_to_i8(b) == IF b >= 128 THEN b - 256 ELSE b

\* s[from+1 .. from+n] of a buffer (0-based offset `from`)
Slice(s, from, n) == SubSeq(s, from + 1, from + n)

Repeat(b, n) == [i \in 1..n |-> b]

----------------------------------------------------------------------------
(* thrift.rs: TType and TMessageType                                       *)

T_Stop == 0
T_Void == 1
T_Bool == 2
T_I8 == 3
T_Double == 4
T_I16 == 6
T_I32 == 8
T_I64 == 10
T_Binary == 11
T_Struct == 12
T_Map == 13
T_Set == 14
T_List == 15
T_Uuid == 16

\* impl TryFrom<u8> for TType: the accepted wire values
TTypeValues == {0, 1, 2, 3, 4, 6, 8, 10, 11, 12, 13, 14, 15, 16}

\* (a variant that also takes the unassigned value 5)
TType_try_from_Accepts5(value) ==
    IF value \in TTypeValues \cup {5}
    THEN [st |-> "Ok", val |-> value]
    ELSE [st |-> "InvalidData", val |-> value]

TType_try_from(value) ==
    IF value \in TTypeValues
    THEN [st |-> "Ok", val |-> value]
    ELSE [st |-> "InvalidData", val |-> value]

\* impl TryFrom<u8> for TMessageType: Call=1, Reply=2, Exception=3, OneWay=4
TMessageType_try_from(value) ==
    IF value \in {1, 2, 3, 4}
    THEN [st |-> "Ok", val |-> value]
    ELSE [st |-> "InvalidData", val |-> value]

\* binary.rs: field_type_from_u8
field_type_from_u8(ttype) ==
    IF TType_try_from(ttype).st = "Ok"
    THEN [st |-> "Ok", val |-> TType_try_from(ttype).val]
    ELSE [st |-> "InvalidData", val |-> ttype]


----------------------------------------------------------------------------
(* binary.rs: the writer, TBinaryProtocol<&mut BytesMut, PositionStack>.   *)
(* A writer state is [trans: the buffer, att: the position stack           *)
(* (attachment), st: "Ok" or "panic"].  A usize argument (len, size) is a  *)
(* number in 0..2^31-1, on which `as i32` is the identity.                 *)

NewWriter(trans) == [trans |-> trans, att |-> <<>>, st |-> "Ok"]

put_slice(w, bytes) == [w EXCEPT !.trans = @ \o bytes]

write_byte(w, b) == put_slice(w, <<b>>)

write_bool(w, b) == put_slice(w, <<i8_to_u8(IF b THEN 1 ELSE 0)>>)

write_i8(w, i) == put_slice(w, <<i8_to_u8(i)>>)

write_i16(w, i) == put_slice(w, to_be_bytes_i16(i))

write_i32(w, i) == put_slice(w, to_be_bytes_i32(i))

\* an i64 is [hi |-> i32, lo |-> i32]: its high and low words
write_i64(w, i) == put_slice(w, to_be_bytes_i32(i.hi) \o to_be_bytes_i32(i.lo))

\* an f64 is the i64 of its bits (put_f64 writes f64::to_bits big-endian)
write_double(w, d) == put_slice(w, to_be_bytes_i32(d.hi) \o to_be_bytes_i32(d.lo))

write_uuid(w, u) == put_slice(w, u)

write_bytes(w, b) == put_slice(write_i32(w, Len(b)), b)

write_string(w, s) == write_bytes(w, s)

\* (a variant that puts the id before the type byte)
write_field_begin_IdFirst(w, field_type, id) ==
    put_slice(w, to_be_bytes_i16(id) \o <<field_type>>)

write_field_begin(w, field_type, id) ==
    put_slice(w, <<field_type>> \o to_be_bytes_i16(id))

write_field_stop(w) == write_byte(w, T_Stop)

\* (a variant that records the offset twice)
push_position_Twice(w) == [w EXCEPT !.att = Append(Append(@, Len(w.trans)), Len(w.trans))]

\* self.attachment.push(self.trans.len())
push_position(w) == [w EXCEPT !.att = Append(@, Len(w.trans))]

write_list_begin(w, identifier) ==
    write_i32(push_position(write_byte(w, identifier.element_type)), identifier.size)

write_set_begin(w, identifier) ==
    write_i32(push_position(write_byte(w, identifier.element_type)), identifier.size)

write_map_begin(w, identifier) ==
    write_i32(push_position(write_byte(write_byte(w, identifier.key_type),
                                       identifier.value_type)),
              identifier.size)

\* (a variant that overwrites the 4 bytes one place too early)
write_length_OneEarly(w, len) ==
    IF w.att = <<>>
    THEN [w EXCEPT !.st = "panic"]
    ELSE LET pos == w.att[Len(w.att)] - 1
             be == to_be_bytes_i32(len)
         IN  IF pos + 4 > Len(w.trans)
             THEN [w EXCEPT !.att = SubSeq(@, 1, Len(@) - 1), !.st = "panic"]
             ELSE [w EXCEPT !.att = SubSeq(@, 1, Len(@) - 1),
                            !.trans = [i \in 1..Len(@) |->
                                         IF i > pos /\ i <= pos + 4 THEN be[i - pos]
                                         ELSE @[i]]]

\* write_length: pop().expect("illegal thrift pair"), then
\* self.trans[pos..pos + 4].copy_from_slice(..): the slice index panics
\* when the buffer ends before pos + 4, else the 4 bytes are overwritten
write_length(w, len) ==
    IF w.att = <<>>
    THEN [w EXCEPT !.st = "panic"]
    ELSE LET pos == w.att[Len(w.att)]
             be == to_be_bytes_i32(len)
         IN  IF pos + 4 > Len(w.trans)
             THEN [w EXCEPT !.att = SubSeq(@, 1, Len(@) - 1), !.st = "panic"]
             ELSE [w EXCEPT !.att = SubSeq(@, 1, Len(@) - 1),
                            !.trans = [i \in 1..Len(@) |->
                                         IF i > pos /\ i <= pos + 4 THEN be[i - pos]
                                         ELSE @[i]]]

write_list_end(w, len) == write_length(w, len)

write_set_end(w, len) == write_length(w, len)

write_map_end(w, len) == write_length(w, len)

VERSION_1_i32 == -2147418112   \* VERSION_1 = 0x80010000, as i32

\* identifier = [name, message_type, sequence_number]
write_message_begin(w, identifier) ==
    write_i32(write_bytes(write_i32(w, VERSION_1_i32 + identifier.message_type),
                          identifier.name),
              identifier.sequence_number)

\* buf() hands the caller the buffer itself (&mut BytesMut); what the
\* caller does with it: truncate(n) keeps the first n bytes (all of them
\* when there are fewer), clear() none, put_slice appends
buf_edit(w, edit) ==
    CASE edit.op = "truncate" ->
            [w EXCEPT !.trans = SubSeq(@, 1, IF edit.n < Len(@) THEN edit.n ELSE Len(@))]
      [] edit.op = "clear" -> [w EXCEPT !.trans = <<>>]
      [] edit.op = "put_slice" -> put_slice(w, edit.bytes)

----------------------------------------------------------------------------
(* binary.rs: the synchronous reader TBinaryProtocol<Cursor<&[u8]>, A>.    *)
(* A reader is [buf, pos] (trans: the slice and the cursor position).  An  *)
(* operation returns [st, msg, val, pos]: st is "Ok", a CodecErrorKind     *)
(* ("InvalidData", "BadVersion", "IOError"), "panic" (an arithmetic        *)
(* overflow in a build with overflow checks) or "UB" (the same overflow in *)
(* a build without: the returned slice does not lie inside the input).     *)

Res(st, msg, val, pos) == [st |-> st, msg |-> msg, val |-> val, pos |-> pos]

Reader(buf, pos) == [buf |-> buf, pos |-> pos]

\* Cursor::remaining(): len.saturating_sub(pos)
remaining(r) == IF Len(r.buf) >= r.pos THEN Len(r.buf) - r.pos ELSE 0

\* std::io::Read::read_exact on the cursor: n bytes or UnexpectedEof; the
\* io::Error becomes CodecErrorKind::IOError (error.rs, From<io::Error>)
read_exact(r, n) ==
    IF remaining(r) >= n
    THEN Res("Ok", "", Slice(r.buf, r.pos, n), r.pos + n)
    ELSE Res("IOError", "UnexpectedEof", <<>>, Len(r.buf))

\* the Ok result with the value decoded from its bytes; an error as it is
Decoded(res, val) == IF res.st = "Ok" THEN [res EXCEPT !.val = val] ELSE res

read_byte(r) ==
    LET res == read_exact(r, 1) IN
    IF res.st = "Ok" THEN Decoded(res, res.val[1]) ELSE res

read_i8(r) ==
    LET res == read_exact(r, 1) IN
    IF res.st = "Ok" THEN Decoded(res, u8_to_i8(res.val[1])) ELSE res

read_bool(r) ==
    LET res == read_i8(r) IN
    IF res.st = "Ok" THEN Decoded(res, res.val # 0) ELSE res

read_i16(r) ==
    LET res == read_exact(r, 2) IN
    IF res.st = "Ok" THEN Decoded(res, from_be_bytes_i16(res.val)) ELSE res

read_i32(r) ==
    LET res == read_exact(r, 4) IN
    IF res.st = "Ok" THEN Decoded(res, from_be_bytes_i32(res.val)) ELSE res

I64OfBytes(b) == [hi |-> from_be_bytes_i32(SubSeq(b, 1, 4)),
                  lo |-> from_be_bytes_i32(SubSeq(b, 5, 8))]

read_i64(r) ==
    LET res == read_exact(r, 8) IN
    IF res.st = "Ok" THEN Decoded(res, I64OfBytes(res.val)) ELSE res

read_double(r) ==
    LET res == read_exact(r, 8) IN
    IF res.st = "Ok" THEN Decoded(res, I64OfBytes(res.val)) ELSE res

read_uuid(r) == read_exact(r, 16)

\* read_bytes: len = read_i32()? as usize; target_pos = pos + len.
\* A negative i32 becomes 2^64 + len: pos + len then wraps (or panics) when
\* pos + len >= 0, and exceeds total otherwise.  For len >= 0 the sum is
\* below 2^64, and pos + len > total is written len > total - pos.
read_bytes(r, checks) ==
    LET l == read_i32(r) IN
    IF l.st # "Ok" THEN l
    ELSE LET len == l.val
             total == Len(r.buf)
             pos == l.pos
         IN  IF len >= 0
             THEN IF len > total - pos
                  THEN Res("InvalidData", "invalid bytes length", <<>>, pos)
                  ELSE Res("Ok", "", Slice(r.buf, pos, len), pos + len)
             ELSE IF pos + len < 0
                  THEN Res("InvalidData", "invalid bytes length", <<>>, pos)
                  ELSE IF checks
                       THEN Res("panic", "attempt to add with overflow", <<>>, pos)
                       ELSE Res("UB", "slice of length 2^64 + len", <<>>, pos + len)

\* core::str utf8 validation (data.utf8_chunks().next(): the first chunk is
\* valid in full): well-formed UTF-8 byte sequences, Unicode table 3-7
RECURSIVE Utf8Valid(_)
Utf8Valid(d) ==
    LET n == Len(d)
        Cont(i) == i <= n /\ d[i] >= 128 /\ d[i] <= 191
        Rest(k) == Utf8Valid(SubSeq(d, k + 1, n))
    IN  IF n = 0 THEN TRUE
        ELSE IF d[1] <= 127 THEN Rest(1)
        ELSE IF d[1] >= 194 /\ d[1] <= 223 THEN Cont(2) /\ Rest(2)
        ELSE IF d[1] = 224 THEN Cont(2) /\ d[2] >= 160 /\ Cont(3) /\ Rest(3)
        ELSE IF d[1] = 237 THEN Cont(2) /\ d[2] <= 159 /\ Cont(3) /\ Rest(3)
        ELSE IF d[1] >= 225 /\ d[1] <= 239 THEN Cont(2) /\ Cont(3) /\ Rest(3)
        ELSE IF d[1] = 240 THEN Cont(2) /\ d[2] >= 144 /\ Cont(3) /\ Cont(4) /\ Rest(4)
        ELSE IF d[1] = 244 THEN Cont(2) /\ d[2] <= 143 /\ Cont(3) /\ Cont(4) /\ Rest(4)
        ELSE IF d[1] >= 241 /\ d[1] <= 243 THEN Cont(2) /\ Cont(3) /\ Cont(4) /\ Rest(4)
        ELSE FALSE

read_string(r, checks) ==
    LET data == read_bytes(r, checks) IN
    IF data.st # "Ok" THEN data
    ELSE IF data.val = <<>> THEN data
    ELSE IF Utf8Valid(data.val) THEN data
    ELSE Res("InvalidData", "not a valid utf8 string", <<>>, data.pos)

\* (a variant that takes the low byte)
LowNibble_LowByte(size) == size % 256

\* size & 0xf and size & VERSION_MASK on the two's complement i32
LowNibble(size) == size % 16
VersionBits(size) == size - (size % 65536)

read_message_begin(r, checks) ==
    LET size == read_i32(r) IN
    IF size.st # "Ok" THEN size
    ELSE IF size.val > 0
    THEN Res("BadVersion", "Missing version in ReadMessageBegin", <<>>, size.pos)
    ELSE LET type_u8 == LowNibble(size.val)
             message_type == TMessageType_try_from(type_u8)
         IN  IF message_type.st # "Ok"
             THEN Res("InvalidData", "invalid message type", <<>>, size.pos)
             ELSE IF VersionBits(size.val) # VERSION_1_i32
             THEN Res("BadVersion", "Bad version in ReadMessageBegin", <<>>, size.pos)
             ELSE LET name == read_string(Reader(r.buf, size.pos), checks) IN
                  IF name.st # "Ok" THEN name
                  ELSE LET sequence_number == read_i32(Reader(r.buf, name.pos)) IN
                       IF sequence_number.st # "Ok" THEN sequence_number
                       ELSE Res("Ok", "",
                                [name |-> name.val, message_type |-> message_type.val,
                                 sequence_number |-> sequence_number.val],
                                sequence_number.pos)

\* the field id is Some(0) for Stop, Some(read_i16) otherwise
read_field_begin(r) ==
    LET field_type_byte == read_byte(r) IN
    IF field_type_byte.st # "Ok" THEN field_type_byte
    ELSE LET field_type == TType_try_from(field_type_byte.val) IN
         IF field_type.st # "Ok"
         THEN Res("InvalidData", "invalid ttype", <<>>, field_type_byte.pos)
         ELSE IF field_type.val = T_Stop
              THEN Res("Ok", "", [field_type |-> T_Stop, id |-> 0], field_type_byte.pos)
              ELSE LET id == read_i16(Reader(r.buf, field_type_byte.pos)) IN
                   IF id.st # "Ok" THEN id
                   ELSE Res("Ok", "", [field_type |-> field_type.val, id |-> id.val], id.pos)

\* self.read_byte().and_then(field_type_from_u8)
read_ttype_byte(r) ==
    LET b == read_byte(r) IN
    IF b.st # "Ok" THEN b
    ELSE IF field_type_from_u8(b.val).st # "Ok"
         THEN Res("InvalidData", "invalid ttype", <<>>, b.pos)
         ELSE b

\* the identifier's size is `size as usize`: kept as the i32 read
read_list_begin(r) ==
    LET element_type == read_ttype_byte(r) IN
    IF element_type.st # "Ok" THEN element_type
    ELSE LET size == read_i32(Reader(r.buf, element_type.pos)) IN
         IF size.st # "Ok" THEN size
         ELSE Res("Ok", "", [element_type |-> element_type.val, size |-> size.val], size.pos)

read_set_begin(r) ==
    LET element_type == read_ttype_byte(r) IN
    IF element_type.st # "Ok" THEN element_type
    ELSE LET size == read_i32(Reader(r.buf, element_type.pos)) IN
         IF size.st # "Ok" THEN size
         ELSE Res("Ok", "", [element_type |-> element_type.val, size |-> size.val], size.pos)

read_map_begin(r) ==
    LET key_type == read_ttype_byte(r) IN
    IF key_type.st # "Ok" THEN key_type
    ELSE LET value_type == read_ttype_byte(Reader(r.buf, key_type.pos)) IN
         IF value_type.st # "Ok" THEN value_type
         ELSE LET size == read_i32(Reader(r.buf, value_type.pos)) IN
              IF size.st # "Ok" THEN size
              ELSE Res("Ok", "",
                       [key_type |-> key_type.val, value_type |-> value_type.val,
                        size |-> size.val],
                       size.pos)

----------------------------------------------------------------------------
(* binary.rs: skip_field.  The loop is the same text in the synchronous    *)
(* reader (lines 400-516) and in the asynchronous skipper (lines 625-732); *)
(* they differ only in require_data!, so the loop body is modelled once,   *)
(* cut at every require_data!: a micro-step is one require_data!(n)        *)
(* followed by the code up to the next require_data! or the end of the     *)
(* iteration.  A machine is                                                *)
(*   [buf, pos, cur, stack, ph, res, tag]                                  *)
(* cur/stack hold SkipData: [k |-> "Other", t] or                          *)
(* [k |-> "Collection", len, t0, t1] (len: the u32 as its i32 pattern);    *)
(* ph is the place inside the iteration: "top" or after the first          *)
(* require_data! of the iteration.                                         *)

\* const BINARY_BASIC_TYPE_FIXED_SIZE: [usize; 17]
BINARY_BASIC_TYPE_FIXED_SIZE ==
    [t \in 0..16 |->
        CASE t \in {T_Bool, T_I8} -> 1
          [] t \in {T_Double, T_I64} -> 8
          [] t = T_I16 -> 2
          [] t = T_I32 -> 4
          [] t = T_Uuid -> 16
          [] OTHER -> 0]

Other(t) == [k |-> "Other", t |-> t, len |-> 0, t0 |-> 0, t1 |-> 0]
Collection(len, t0, t1) == [k |-> "Collection", t |-> 0, len |-> len, t0 |-> t0, t1 |-> t1]

PhTop == [k |-> "top", a |-> 0, b |-> 0]
Ph(k, a, b) == [k |-> k, a |-> a, b |-> b]

NewSkip(buf, pos, ttype) ==
    [buf |-> buf, pos |-> pos, cur |-> Other(ttype), stack |-> <<>>,
     ph |-> PhTop, res |-> "running", tag |-> -1]

\* n bytes as a requirement: cnt * unit bytes, cnt an i32 bit pattern of a
\* u32 / sign-extended usize (negative: at least 2^31 bytes)
Req(cnt, unit) == [cnt |-> cnt, unit |-> unit]

\* remaining < cnt * unit, without forming a product outside the i32 range
Lacks(rem, req) ==
    IF req.unit = 0 \/ req.cnt = 0 THEN FALSE
    ELSE IF req.cnt < 0 THEN TRUE
    ELSE (rem \div req.unit) < req.cnt

\* the argument of the require_data! that opens the micro-step
Want(m) ==
    IF m.ph.k # "top"
    THEN CASE m.ph.k = "field_fixed" -> Req(m.ph.a, 1)
           [] m.ph.k = "field_id" -> Req(2, 1)
           [] m.ph.k = "bin_body" -> Req(m.ph.a, 1)
           [] m.ph.k = "elems" -> Req(m.ph.a, m.ph.b)
    ELSE IF m.cur.k = "Collection" THEN Req(0, 1)
    ELSE CASE m.cur.t = T_Struct -> Req(1, 1)
           [] m.cur.t \in {T_Bool, T_I8} -> Req(1, 1)
           [] m.cur.t \in {T_Double, T_I64} -> Req(8, 1)
           [] m.cur.t = T_I16 -> Req(2, 1)
           [] m.cur.t = T_I32 -> Req(4, 1)
           [] m.cur.t = T_Binary -> Req(4, 1)
           [] m.cur.t = T_Uuid -> Req(16, 1)
           [] m.cur.t \in {T_List, T_Set} -> Req(5, 1)
           [] m.cur.t = T_Map -> Req(6, 1)
           [] OTHER -> Req(0, 1)

\* pop!(stack): the last frame becomes current, or the loop breaks with Ok
Pop(m) ==
    IF m.stack = <<>>
    THEN [m EXCEPT !.res = "Ok", !.ph = PhTop]
    ELSE [m EXCEPT !.cur = m.stack[Len(m.stack)],
                   !.stack = SubSeq(m.stack, 1, Len(m.stack) - 1),
                   !.ph = PhTop]

Fail(m, kind) == [m EXCEPT !.res = kind]

\* u32 `len - 1` on the bit pattern (len # 0)
U32Dec(c) == IF c = MinI32 THEN MaxI32 ELSE c - 1

\* u32 `element_len * 2`: overflows iff the u32 is >= 2^31 (pattern < 0);
\* the wrapped product as a bit pattern
U32Mul2Overflows(c) == c < 0
U32Mul2Wrapped(c) ==
    LET h == IF c < 0 THEN c - MinI32 ELSE c IN
    IF h < 1073741824 THEN 2 * h ELSE (h - 1073741824) * 2 + MinI32

\* Other(Struct): one field header
ExecStruct(m) ==
    LET field_type_byte == m.buf[m.pos + 1]
        m1 == [m EXCEPT !.pos = m.pos + 1, !.tag = field_type_byte]
        field_type == TType_try_from(field_type_byte)
    IN  IF field_type.st # "Ok" THEN Fail(m1, "InvalidData")
        ELSE LET size == BINARY_BASIC_TYPE_FIXED_SIZE[field_type.val] IN
             IF size # 0 THEN [m1 EXCEPT !.ph = Ph("field_fixed", 2 + size, 0)]
             ELSE IF field_type.val = T_Stop THEN Pop(m1)
             ELSE [m1 EXCEPT !.ph = Ph("field_id", field_type.val, 0)]

\* Other(List | Set): element type and count
ExecList(m) ==
    LET b == m.buf[m.pos + 1]
        m1 == [m EXCEPT !.pos = m.pos + 1, !.tag = b]
        element_type == TType_try_from(b)
    IN  IF element_type.st # "Ok" THEN Fail(m1, "InvalidData")
        ELSE LET element_len == from_be_bytes_i32(Slice(m.buf, m.pos + 1, 4))
                 m2 == [m1 EXCEPT !.pos = m.pos + 5]
                 size == BINARY_BASIC_TYPE_FIXED_SIZE[element_type.val]
             IN  IF size # 0 THEN [m2 EXCEPT !.ph = Ph("elems", element_len, size)]
                 ELSE [m2 EXCEPT !.cur = Collection(element_len, element_type.val,
                                                    element_type.val)]

\* (a variant that hands the collection the value type first)
ExecMap_ValueFirst(m, checks) ==
    LET b == m.buf[m.pos + 1]
        m1 == [m EXCEPT !.pos = m.pos + 1, !.tag = b]
        element_type == TType_try_from(b)
    IN  IF element_type.st # "Ok" THEN Fail(m1, "InvalidData")
        ELSE
        LET b2 == m.buf[m.pos + 2]
            m2 == [m EXCEPT !.pos = m.pos + 2, !.tag = b2]
            element_type2 == TType_try_from(b2)
        IN  IF element_type2.st # "Ok" THEN Fail(m2, "InvalidData")
            ELSE
            LET element_len == from_be_bytes_i32(Slice(m.buf, m.pos + 2, 4))
                m3 == [m2 EXCEPT !.pos = m.pos + 6]
                size == BINARY_BASIC_TYPE_FIXED_SIZE[element_type.val]
                size2 == BINARY_BASIC_TYPE_FIXED_SIZE[element_type2.val]
            IN  IF size # 0 /\ size2 # 0
                THEN [m3 EXCEPT !.ph = Ph("elems", element_len, size + size2)]
                ELSE IF U32Mul2Overflows(element_len) /\ checks
                THEN Fail(m3, "panic")
                ELSE [m3 EXCEPT !.cur = Collection(U32Mul2Wrapped(element_len),
                                                   element_type2.val, element_type.val)]

\* Other(Map): key type, value type and count
ExecMap(m, checks) ==
    LET b == m.buf[m.pos + 1]
        m1 == [m EXCEPT !.pos = m.pos + 1, !.tag = b]
        element_type == TType_try_from(b)
    IN  IF element_type.st # "Ok" THEN Fail(m1, "InvalidData")
        ELSE
        LET b2 == m.buf[m.pos + 2]
            m2 == [m EXCEPT !.pos = m.pos + 2, !.tag = b2]
            element_type2 == TType_try_from(b2)
        IN  IF element_type2.st # "Ok" THEN Fail(m2, "InvalidData")
            ELSE
            LET element_len == from_be_bytes_i32(Slice(m.buf, m.pos + 2, 4))
                m3 == [m2 EXCEPT !.pos = m.pos + 6]
                size == BINARY_BASIC_TYPE_FIXED_SIZE[element_type.val]
                size2 == BINARY_BASIC_TYPE_FIXED_SIZE[element_type2.val]
            IN  IF size # 0 /\ size2 # 0
                THEN [m3 EXCEPT !.ph = Ph("elems", element_len, size + size2)]
                ELSE IF U32Mul2Overflows(element_len) /\ checks
                THEN Fail(m3, "panic")
                ELSE [m3 EXCEPT !.cur = Collection(U32Mul2Wrapped(element_len),
                                                   element_type.val, element_type2.val)]

\* (a variant that pushes one frame for every element still to come)
ExecCollection_FramePerElement(m) ==
    IF m.cur.len = 0 THEN Pop(m)
    ELSE [m EXCEPT !.cur = Other(IF m.cur.len % 2 = 0 THEN m.cur.t0 ELSE m.cur.t1),
                   !.stack = m.stack \o
                             [i \in 1..(m.cur.len - 1) |->
                                Other(IF i % 2 = 0 THEN m.cur.t0 ELSE m.cur.t1)]]

\* mutant: the parity of `remaining` selects the other element type
ExecCollection_ParitySwapped(m) ==
    IF m.cur.len = 0 THEN Pop(m)
    ELSE [m EXCEPT !.cur = Other(IF m.cur.len % 2 = 0 THEN m.cur.t1 ELSE m.cur.t0),
                   !.stack = Append(m.stack,
                                    Collection(U32Dec(m.cur.len), m.cur.t0, m.cur.t1))]

\* SkipData::Collection(len, ttypes)
ExecCollection(m) ==
    IF m.cur.len = 0 THEN Pop(m)
    ELSE [m EXCEPT !.cur = Other(IF m.cur.len % 2 = 0 THEN m.cur.t0 ELSE m.cur.t1),
                   !.stack = Append(m.stack,
                                    Collection(U32Dec(m.cur.len), m.cur.t0, m.cur.t1))]

\* the micro-step, its require_data! being satisfied
Exec(m, checks) ==
    IF m.ph.k # "top"
    THEN CASE m.ph.k = "field_fixed" ->
                [m EXCEPT !.pos = m.pos + m.ph.a, !.ph = PhTop]
           [] m.ph.k = "field_id" ->
                [m EXCEPT !.pos = m.pos + 2, !.stack = Append(m.stack, m.cur),
                          !.cur = Other(m.ph.a), !.ph = PhTop]
           [] m.ph.k = "bin_body" -> Pop([m EXCEPT !.pos = m.pos + m.ph.a])
           [] m.ph.k = "elems" -> Pop([m EXCEPT !.pos = m.pos + m.ph.a * m.ph.b])
    ELSE IF m.cur.k = "Collection" THEN ExecCollection(m)
    ELSE CASE m.cur.t = T_Struct -> ExecStruct(m)
           [] m.cur.t \in {T_Bool, T_I8} -> Pop([m EXCEPT !.pos = m.pos + 1])
           [] m.cur.t \in {T_Double, T_I64} -> Pop([m EXCEPT !.pos = m.pos + 8])
           [] m.cur.t = T_I16 -> Pop([m EXCEPT !.pos = m.pos + 2])
           [] m.cur.t = T_I32 -> Pop([m EXCEPT !.pos = m.pos + 4])
           [] m.cur.t = T_Binary ->
                [m EXCEPT !.pos = m.pos + 4,
                          !.ph = Ph("bin_body", from_be_bytes_i32(Slice(m.buf, m.pos, 4)), 0)]
           [] m.cur.t = T_Uuid -> Pop([m EXCEPT !.pos = m.pos + 16])
           [] m.cur.t \in {T_List, T_Set} -> ExecList(m)
           [] m.cur.t = T_Map -> ExecMap(m, checks)
           [] OTHER -> Fail(m, "InvalidData")

\* the synchronous require_data!: return Err(CodecError::invalid_data())
skip_step(m, checks) ==
    IF Lacks(Len(m.buf) - m.pos, Want(m))
    THEN Fail(m, "InvalidData")
    ELSE Exec(m, checks)

\* skip_field run to its end (used where the skip is one step of a larger run)
RECURSIVE skip_field(_, _)
skip_field(m, checks) ==
    IF m.res # "running" THEN m ELSE skip_field(skip_step(m, checks), checks)

----------------------------------------------------------------------------
(* Thrift values and their encoding by the writer.  A value is             *)
(*   [t: TType, v: its scalar words or bytes, xs: its elements (map: key,  *)
(*    value, key, value, ...; struct: the field values), ids: the field    *)
(*    ids of a struct, et / vt: element (key) type and value type]         *)

Val(t, v) == [t |-> t, v |-> v, xs |-> <<>>, ids |-> <<>>, et |-> 0, vt |-> 0]
VList(et, xs) == [t |-> T_List, v |-> <<>>, xs |-> xs, ids |-> <<>>, et |-> et, vt |-> 0]
VSet(et, xs) == [t |-> T_Set, v |-> <<>>, xs |-> xs, ids |-> <<>>, et |-> et, vt |-> 0]
VMap(kt, vt, xs) == [t |-> T_Map, v |-> <<>>, xs |-> xs, ids |-> <<>>, et |-> kt, vt |-> vt]
VStruct(xs, ids) == [t |-> T_Struct, v |-> <<>>, xs |-> xs, ids |-> ids, et |-> 0, vt |-> 0]

RECURSIVE EncV(_, _)
RECURSIVE EncSeq(_, _, _)
RECURSIVE EncFields(_, _, _)

\* the elements xs[i..], in order
EncSeq(w, xs, i) ==
    IF i > Len(xs) THEN w ELSE EncSeq(EncV(w, xs[i]), xs, i + 1)

\* write_field_begin, the value (write_field_end writes nothing), per field
EncFields(w, val, i) ==
    IF i > Len(val.xs) THEN w
    ELSE EncFields(EncV(write_field_begin(w, val.xs[i].t, val.ids[i]), val.xs[i]),
                   val, i + 1)

\* the writer calls generated code makes for a value
EncV(w, val) ==
    CASE val.t = T_Bool -> write_bool(w, val.v[1] = 1)
      [] val.t = T_I8 -> write_i8(w, val.v[1])
      [] val.t = T_Double -> write_double(w, [hi |-> val.v[1], lo |-> val.v[2]])
      [] val.t = T_I16 -> write_i16(w, val.v[1])
      [] val.t = T_I32 -> write_i32(w, val.v[1])
      [] val.t = T_I64 -> write_i64(w, [hi |-> val.v[1], lo |-> val.v[2]])
      [] val.t = T_Binary -> write_bytes(w, val.v)
      [] val.t = T_Uuid -> write_uuid(w, val.v)
      [] val.t = T_Struct -> write_field_stop(EncFields(w, val, 1))
      [] val.t = T_List ->
            write_list_end(
                EncSeq(write_list_begin(w, [element_type |-> val.et, size |-> Len(val.xs)]),
                       val.xs, 1),
                Len(val.xs))
      [] val.t = T_Set ->
            write_set_end(
                EncSeq(write_set_begin(w, [element_type |-> val.et, size |-> Len(val.xs)]),
                       val.xs, 1),
                Len(val.xs))
      [] val.t = T_Map ->
            write_map_end(
                EncSeq(write_map_begin(w, [key_type |-> val.et, value_type |-> val.vt,
                                           size |-> Len(val.xs) \div 2]),
                       val.xs, 1),
                Len(val.xs) \div 2)

Encode(val) == EncV(NewWriter(<<>>), val).trans

----------------------------------------------------------------------------
(* Reading a value in full with the read_* operations, as generated code   *)
(* does: the position reached, or the first error.                         *)

RECURSIVE ReadValue(_, _, _)
RECURSIVE ReadElems(_, _, _, _, _)
RECURSIVE ReadFields(_, _)

\* `count` elements whose types alternate t0, t1 (a negative count is a
\* usize above 2^63: the loop only ends with an error)
ReadElems(r, count, t0, t1, checks) ==
    IF count = 0 THEN Res("Ok", "", <<>>, r.pos)
    ELSE LET e == ReadValue(r, t0, checks) IN
         IF e.st # "Ok" THEN e
         ELSE ReadElems(Reader(r.buf, e.pos), IF count > 0 THEN count - 1 ELSE count,
                        t1, t0, checks)

ReadFields(r, checks) ==
    LET f == read_field_begin(r) IN
    IF f.st # "Ok" THEN f
    ELSE IF f.val.field_type = T_Stop THEN Res("Ok", "", <<>>, f.pos)
    ELSE LET e == ReadValue(Reader(r.buf, f.pos), f.val.field_type, checks) IN
         IF e.st # "Ok" THEN e ELSE ReadFields(Reader(r.buf, e.pos), checks)

ReadValue(r, t, checks) ==
    CASE t = T_Bool -> read_bool(r)
      [] t = T_I8 -> read_i8(r)
      [] t = T_Double -> read_double(r)
      [] t = T_I16 -> read_i16(r)
      [] t = T_I32 -> read_i32(r)
      [] t = T_I64 -> read_i64(r)
      [] t = T_Binary -> read_bytes(r, checks)
      [] t = T_Uuid -> read_uuid(r)
      [] t = T_Struct -> ReadFields(r, checks)
      [] t = T_List ->
            LET id == read_list_begin(r) IN
            IF id.st # "Ok" THEN id
            ELSE ReadElems(Reader(r.buf, id.pos), id.val.size,
                           id.val.element_type, id.val.element_type, checks)
      [] t = T_Set ->
            LET id == read_set_begin(r) IN
            IF id.st # "Ok" THEN id
            ELSE ReadElems(Reader(r.buf, id.pos), id.val.size,
                           id.val.element_type, id.val.element_type, checks)
      [] t = T_Map ->
            LET id == read_map_begin(r) IN
            IF id.st # "Ok" THEN id
            ELSE IF id.val.size < 0 \/ id.val.size > 1073741823
                 THEN ReadElems(Reader(r.buf, id.pos), -1,
                                id.val.key_type, id.val.value_type, checks)
                 ELSE ReadElems(Reader(r.buf, id.pos), 2 * id.val.size,
                                id.val.key_type, id.val.value_type, checks)
      [] OTHER -> Res("InvalidData", "no value of this type", <<>>, r.pos)

----------------------------------------------------------------------------
(* The inputs of the skip runs                                             *)

MaxBin == 1      \* longest binary value
MaxCount == 2    \* most elements (map entries) of a generated container
MaxDepth == 1    \* container levels wrapped around every scalar
MaxTrail == 1    \* most bytes after the encoded value

VBool == Val(T_Bool, <<1>>)
VI8 == Val(T_I8, <<-4>>)
VDouble == Val(T_Double, <<1074340347, 1413754136>>)
VI16 == Val(T_I16, <<3083>>)
VI32 == Val(T_I32, <<252510220>>)
VI64 == Val(T_I64, <<-1, 12>>)
VUuid == Val(T_Uuid, [i \in 1..16 |-> i + 10])
VBin(n) == Val(T_Binary, Repeat(12, n))

Prims == {VBool, VI8, VDouble, VI16, VI32, VI64, VUuid} \cup {VBin(n) : n \in 0..MaxBin}

\* key, value, key, value, ... for n entries
Entries(k, v, n) == [i \in 1..(2 * n) |-> IF i % 2 = 1 THEN k ELSE v]

\* the containers built around one value
Wrap(v) ==
    {VList(v.t, Repeat(v, n)) : n \in 0..MaxCount}
    \cup {VSet(v.t, <<v>>)}
    \cup {VMap(T_I32, v.t, Entries(VI32, v, n)) : n \in 0..MaxCount}
    \cup {VMap(T_Binary, v.t, Entries(VBin(1), v, 1))}
    \cup {VStruct(<<v>>, <<1>>), VStruct(<<VI16, v, VBool>>, <<1, 7, -2>>)}

Layer[d \in 0..MaxDepth] ==
    IF d = 0 THEN Prims ELSE UNION {Wrap(v) : v \in Layer[d - 1]}

\* spec scenario E2: struct { 7: map<i32, list<i16>> = {1: [10, 20, 30]} }
ScenarioE2 ==
    VStruct(<< VMap(T_I32, T_List,
                    << Val(T_I32, <<1>>),
                       VList(T_I16, << Val(T_I16, <<10>>), Val(T_I16, <<20>>),
                                       Val(T_I16, <<30>>) >>) >>) >>,
            <<7>>)

\* two container levels around a fixed-width and around a variable-width scalar
DeepValues == UNION {Wrap(w) : w \in Wrap(VI16) \cup Wrap(VBin(MaxBin))}

Values ==
    UNION {Layer[d] : d \in 0..MaxDepth}
    \cup DeepValues \cup {ScenarioE2, VStruct(<<>>, <<>>)}

Leads == {<<>>, <<13>>}
Trails == {Repeat(b, n) : b \in {0, 15}, n \in 0..MaxTrail}

\* spec scenario E4: map<i32,i32> declaring 2 entries, 4 data bytes follow;
\* read from the first byte and from the byte after the 0D tag
ScenarioE4 == <<13, 8, 8, 0, 0, 0, 2, 0, 0, 0, 1>>

\* headers declaring 2^31 or more elements, or a negative binary length,
\* followed by little or no data
SkipInput(buf, start, t, kind, vlen) ==
    [buf |-> buf, start |-> start, t |-> t, kind |-> kind, vlen |-> vlen]

HostileInputs ==
    {SkipInput(ScenarioE4, 0, T_Map, "short", 0),
     SkipInput(ScenarioE4, 1, T_Map, "short", 0)}
    \cup {SkipInput(<<kt, vt, hi, 0, 0, lo>> \o data, 0, T_Map, "hostile", 0) :
            kt \in {T_Binary, T_I32}, vt \in {T_I32, T_Struct},
            hi \in {128, 255}, lo \in {0, 1},
            data \in {<<>>, <<0, 0, 0, 0, 0, 0, 0, 0>>}}
    \cup {SkipInput(<<et, hi, 0, 0, lo>> \o data, 0, T_List, "hostile", 0) :
            et \in {T_Binary, T_I32, T_Struct},
            hi \in {128, 255}, lo \in {0, 1},
            data \in {<<>>, <<0, 0, 0, 0>>}}
    \cup {SkipInput(<<hi, 255, 255, lo>> \o data, 0, T_Binary, "hostile", 0) :
            hi \in {128, 255}, lo \in {0, 255}, data \in {<<>>, <<1, 2>>}}

(***************************************************************************)
(* binary.rs: read_more_at_least and fill_at_least.  The byte source is    *)
(* the stream and the number of its bytes already handed out (iopos); one  *)
(* io.read returns between 1 and the free capacity bytes, or 0 at the end  *)
(* of the stream.  A fill is [on, read, at_least, end]: the locals of      *)
(* read_more_at_least while its loop runs.                                 *)
(***************************************************************************)
MIN_CAPACITY == 4096

NoFill == [on |-> FALSE, read |-> 0, at_least |-> 0, end |-> 0]

Max(a, b) == IF a >= b THEN a ELSE b
Min(a, b) == IF a <= b THEN a ELSE b

\* the original capacity a BytesMut keeps of the capacity it was made with:
\* the power of two at or below it from 1024 to 65536, 0 below 1024
original_capacity(capacity) ==
    IF capacity < 1024 THEN 0
    ELSE IF capacity >= 65536 THEN 65536
    ELSE CHOOSE p \in {1024 * 2^k : k \in 0..5} :
            p <= capacity /\ capacity < 2 * p

\* the capacity of the large buffers callers bring: with_capacity(65536)
LargeCapacity == 65536

\* A BytesMut without its bytes: cap is its capacity(), off the distance of
\* its first byte from the start of the allocation, vcap the size of the
\* allocation, shared whether a split_to has made it share the allocation
\* with the Bytes handed out, orig its original capacity
BytesMut_with_capacity(capacity) ==
    [cap |-> capacity, off |-> 0, vcap |-> capacity, shared |-> FALSE,
     orig |-> original_capacity(capacity)]

BytesMut_new == BytesMut_with_capacity(0)

\* get_*(), advance(n): the view starts n bytes later
BytesMut_advance(b, n) == [b EXCEPT !.cap = @ - n, !.off = @ + n]

\* split_to(n): the front goes to the Bytes returned, the allocation is
\* shared from now on
BytesMut_split_to(b, n) == [BytesMut_advance(b, n) EXCEPT !.shared = TRUE]

\* Vec::reserve(additional) on a vector of vlen bytes: amortized doubling
Vec_reserve(vcap, vlen, additional) ==
    IF vcap - vlen >= additional THEN vcap
    ELSE Max(Max(2 * vcap, vlen + additional), 8)

\* buffer.reserve(additional) on a buffer of len bytes.  Enough room: no
\* change.  An allocation of its own: the consumed front is reclaimed when
\* the bytes fit there, else the vector grows.  A shared allocation that
\* no Bytes refers to any more (unique) is reused or grown in place, one
\* still referred to is left for a new one of len + additional bytes or of
\* the original capacity, whichever is more
BytesMut_reserve(b, len, additional, unique) ==
    LET new_cap == len + additional IN
    IF b.cap - len >= additional THEN b
    ELSE IF ~b.shared
    THEN IF b.cap - len + b.off >= additional /\ b.off >= len
         THEN [b EXCEPT !.cap = b.cap + b.off, !.off = 0]
         ELSE LET v == Vec_reserve(b.cap + b.off, len + b.off, additional)
              IN  [b EXCEPT !.cap = v - b.off, !.vcap = v]
    ELSE IF unique
    THEN IF b.vcap >= new_cap + b.off THEN [b EXCEPT !.cap = new_cap]
         ELSE IF b.vcap >= new_cap /\ b.off >= len
         THEN [b EXCEPT !.cap = b.vcap, !.off = 0]
         ELSE LET grown == Max(2 * b.vcap, new_cap + b.off)
                  v == Vec_reserve(b.vcap, b.off + len, grown - (b.off + len))
              IN  [b EXCEPT !.cap = v - b.off, !.vcap = v]
    ELSE LET v == Max(new_cap, b.orig)
         IN  [cap |-> v, off |-> 0, vcap |-> v, shared |-> FALSE,
              orig |-> b.orig]

\* (a variant without the reserve)
read_more_at_least_NoReserve(buffer, len, to_read, unique) ==
    [fill |-> [on |-> len < len + to_read, read |-> len,
               at_least |-> len + to_read, end |-> buffer.cap],
     buffer |-> buffer]

\* the entry of read_more_at_least: buffer.reserve(to_read.max(MIN_CAPACITY));
\* read = buffer.len(); end = buffer.capacity(); at_least = read + to_read;
\* the loop is entered while read < at_least (never for to_read = 0)
read_more_at_least(buffer, len, to_read, unique) ==
    LET reserved == BytesMut_reserve(buffer, len, Max(to_read, MIN_CAPACITY), unique)
    IN  [fill |-> [on |-> len < len + to_read, read |-> len,
                   at_least |-> len + to_read, end |-> reserved.cap],
         buffer |-> reserved]

\* (a variant that returns after the first read)
read_more_loop_OnePass(fill, n) == NoFill

\* one pass of the loop with n > 0 bytes returned by io.read: read += n
\* (set_init(read) makes them part of the buffer); the loop ends when
\* read >= at_least
read_more_loop(fill, n) ==
    LET read == fill.read + n IN
    IF read < fill.at_least THEN [fill EXCEPT !.read = read] ELSE NoFill

\* the longest input whose proper prefixes are tried as well
MaxShort == 21

\* the sizes io.read may return for a slice of `room` bytes when `left`
\* bytes of the stream remain: at least one byte, at most what is there and
\* what the slice holds
ChunkSizes(left, room) == 1..Min(left, room)

(***************************************************************************)
(* binary.rs: the asynchronous reader TBinaryProtocol<IO, BytesMut>.       *)
(* The attachment holds the bytes read from the source and not yet         *)
(* consumed (get_* and split_to remove them from its front).  A call is    *)
(* cut at its require_data!s into stages; a reader is                      *)
(*   [stream, iopos, reads, att, bm, fill, script, pc, stage, acc, out,    *)
(*    st, tag]                                                             *)
(* script: the calls to make, pc: the current call, stage: the place in    *)
(* it, acc: its locals, out: the values returned so far, st: "running",    *)
(* bm: the capacity of the attachment (a BytesMut::new() at first),        *)
(* reads: the number of io.read calls that returned data,                  *)
(* "done", a CodecErrorKind or "panic", tag: the last byte converted to a  *)
(* TType (-1: none).                                                       *)
(***************************************************************************)
Acc0 == [a |-> 0, b |-> 0, d |-> <<>>]

\* TBinaryProtocol::from_parts(io, attachment): the attachment is the
\* BytesMut bm holding the first n bytes of the stream, the source gives
\* the bytes behind them
from_parts(stream, script, n, bm) ==
    [stream |-> stream, iopos |-> n, reads |-> 0, att |-> SubSeq(stream, 1, n),
     bm |-> bm, fill |-> NoFill,
     script |-> script, pc |-> 1, stage |-> 0, acc |-> Acc0, out |-> <<>>,
     st |-> IF script = <<>> THEN "done" ELSE "running", tag |-> -1]

\* from_parts(io, BytesMut::new())
NewAsyncReader(stream, script) == from_parts(stream, script, 0, BytesMut_new)

AOp(a) == a.script[a.pc]

\* the n of the stage's require_data!(self, n); the length of read_bytes is
\* `read_i32() as usize`, sign-extended when negative
AWant(a) ==
    LET op == AOp(a) IN
    CASE op \in {"byte", "bool", "i8"} -> 1
      [] op = "i16" -> 2
      [] op = "i32" -> 4
      [] op \in {"i64", "double"} -> 8
      [] op = "uuid" -> 16
      [] op \in {"bytes", "string"} -> IF a.stage = 0 THEN 4 ELSE a.acc.b
      [] op = "field_begin" -> IF a.stage = 0 THEN 1 ELSE 2
      [] op \in {"list_begin", "set_begin"} -> IF a.stage = 0 THEN 1 ELSE 4
      [] op = "map_begin" -> IF a.stage <= 1 THEN 1 ELSE 4
      [] op = "message_begin" -> IF a.stage = 2 THEN a.acc.b ELSE 4

\* the call returns Ok(val): the next call of the script, if any
AReturn(a, val) ==
    [a EXCEPT !.out = Append(a.out, val), !.pc = a.pc + 1, !.stage = 0,
              !.acc = Acc0,
              !.st = IF a.pc + 1 > Len(a.script) THEN "done" ELSE "running"]

AFail(a, kind) == [a EXCEPT !.st = kind]

\* consume n bytes from the front of the attachment
AAdvance(a, n) ==
    [a EXCEPT !.att = SubSeq(a.att, n + 1, Len(a.att)),
              !.bm = BytesMut_advance(a.bm, n)]

\* split_to(n).freeze(): the front n bytes leave as a Bytes
ASplitTo(a, n) ==
    [a EXCEPT !.att = SubSeq(a.att, n + 1, Len(a.att)),
              !.bm = BytesMut_split_to(a.bm, n)]

AFront(a, n) == SubSeq(a.att, 1, n)

\* read_string's check of the bytes read_bytes returned
AString(a, data) ==
    data = <<>> \/ Utf8Valid(data)

\* read_byte().and_then(field_type_from_u8) on the front byte
ATypeByte(a) ==
    LET b == a.att[1] IN
    [ok |-> field_type_from_u8(b).st = "Ok", b |-> b,
     a |-> [AAdvance(a, 1) EXCEPT !.tag = b]]

\* read_message_begin (lines 740-770), stage by stage
AMessageBegin(a) ==
    CASE a.stage = 0 ->
            LET size == from_be_bytes_i32(AFront(a, 4))
                type_u8 == LowNibble(size)
                message_type == TMessageType_try_from(type_u8)
                a1 == AAdvance(a, 4)
            IN  IF size > 0 THEN AFail(a1, "BadVersion")
                ELSE IF message_type.st # "Ok" THEN AFail(a1, "InvalidData")
                ELSE IF VersionBits(size) # VERSION_1_i32 THEN AFail(a1, "BadVersion")
                ELSE [a1 EXCEPT !.stage = 1, !.acc.a = message_type.val]
      [] a.stage = 1 ->
            [AAdvance(a, 4) EXCEPT !.stage = 2,
                                   !.acc.b = from_be_bytes_i32(AFront(a, 4))]
      [] a.stage = 2 ->
            LET data == AFront(a, a.acc.b)
                a1 == ASplitTo(a, a.acc.b)
            IN  IF AString(a, data)
                THEN [a1 EXCEPT !.stage = 3, !.acc.d = data]
                ELSE AFail(a1, "InvalidData")
      [] a.stage = 3 ->
            AReturn(AAdvance(a, 4),
                    [name |-> a.acc.d, message_type |-> a.acc.a,
                     sequence_number |-> from_be_bytes_i32(AFront(a, 4))])

\* read_field_begin (lines 780-793)
AFieldBegin(a) ==
    IF a.stage = 0
    THEN LET field_type_byte == a.att[1]
             field_type == TType_try_from(field_type_byte)
             a1 == [AAdvance(a, 1) EXCEPT !.tag = field_type_byte]
         IN  IF field_type.st # "Ok" THEN AFail(a1, "InvalidData")
             ELSE IF field_type.val = T_Stop
                  THEN AReturn(a1, [field_type |-> T_Stop, id |-> 0])
                  ELSE [a1 EXCEPT !.stage = 1, !.acc.a = field_type.val]
    ELSE AReturn(AAdvance(a, 2),
                 [field_type |-> a.acc.a, id |-> from_be_bytes_i16(AFront(a, 2))])

\* read_list_begin and read_set_begin (lines 797-809)
AListBegin(a) ==
    IF a.stage = 0
    THEN LET element_type == ATypeByte(a) IN
         IF ~element_type.ok THEN AFail(element_type.a, "InvalidData")
         ELSE [element_type.a EXCEPT !.stage = 1, !.acc.a = element_type.b]
    ELSE AReturn(AAdvance(a, 4),
                 [element_type |-> a.acc.a, size |-> from_be_bytes_i32(AFront(a, 4))])

\* read_map_begin (lines 813-818)
AMapBegin(a) ==
    CASE a.stage = 0 ->
            LET key_type == ATypeByte(a) IN
            IF ~key_type.ok THEN AFail(key_type.a, "InvalidData")
            ELSE [key_type.a EXCEPT !.stage = 1, !.acc.a = key_type.b]
      [] a.stage = 1 ->
            LET value_type == ATypeByte(a) IN
            IF ~value_type.ok THEN AFail(value_type.a, "InvalidData")
            ELSE [value_type.a EXCEPT !.stage = 2, !.acc.b = value_type.b]
      [] a.stage = 2 ->
            AReturn(AAdvance(a, 4),
                    [key_type |-> a.acc.a, value_type |-> a.acc.b,
                     size |-> from_be_bytes_i32(AFront(a, 4))])

\* read_bytes and read_string (lines 856-877)
ABytes(a) ==
    IF a.stage = 0
    THEN [AAdvance(a, 4) EXCEPT !.stage = 1,
                                !.acc.b = from_be_bytes_i32(AFront(a, 4))]
    ELSE LET out == AFront(a, a.acc.b)
             a1 == ASplitTo(a, a.acc.b)
         IN  IF AOp(a) = "string" /\ ~AString(a, out)
             THEN AFail(a1, "InvalidData")
             ELSE AReturn(a1, out)

\* the stage's code after its require_data!, with the data present
AExec(a) ==
    LET op == AOp(a) IN
    CASE op = "byte" -> AReturn(AAdvance(a, 1), a.att[1])
      [] op = "i8" -> AReturn(AAdvance(a, 1), u8_to_i8(a.att[1]))
      [] op = "bool" -> AReturn(AAdvance(a, 1), u8_to_i8(a.att[1]) # 0)
      [] op = "i16" -> AReturn(AAdvance(a, 2), from_be_bytes_i16(AFront(a, 2)))
      [] op = "i32" -> AReturn(AAdvance(a, 4), from_be_bytes_i32(AFront(a, 4)))
      [] op \in {"i64", "double"} -> AReturn(AAdvance(a, 8), I64OfBytes(AFront(a, 8)))
      [] op = "uuid" -> AReturn(AAdvance(a, 16), AFront(a, 16))
      [] op \in {"bytes", "string"} -> ABytes(a)
      [] op = "field_begin" -> AFieldBegin(a)
      [] op \in {"list_begin", "set_begin"} -> AListBegin(a)
      [] op = "map_begin" -> AMapBegin(a)
      [] op = "message_begin" -> AMessageBegin(a)

\* require_data!(self, n) with n <= remaining: the stage runs
async_step(a) == AExec(a)

\* the reader while read_more_at_least runs on its attachment
Filling(a, more) == [a EXCEPT !.fill = more.fill, !.bm = more.buffer]

\* require_data!(self, n) with remaining < n: fill_at_least(n) enters
\* read_more_at_least with to_read = n - rem; for a sign-extended negative
\* length to_read exceeds isize::MAX and reserve panics
async_fill(a, unique) ==
    LET n == AWant(a)
        rem == Len(a.att)
    IN  IF n < 0 THEN AFail(a, "panic")
        ELSE Filling(a, read_more_at_least(a.bm, rem, n - rem, unique))

\* (a variant whose source hands out the same bytes again)
async_read_NoAdvance(a, n) ==
    IF n = 0 THEN [a EXCEPT !.st = "IOError", !.fill = NoFill]
    ELSE [a EXCEPT !.att = a.att \o SubSeq(a.stream, a.iopos + 1, a.iopos + n),
                   !.reads = a.reads + 1,
                   !.fill = read_more_loop(a.fill, n)]

\* io.read returned n bytes of the stream into buffer[read..end) (n = 0 at
\* the end of the stream: UnexpectedEof, an IOError)
async_read(a, n) ==
    IF n = 0 THEN [a EXCEPT !.st = "IOError", !.fill = NoFill]
    ELSE [a EXCEPT !.att = a.att \o SubSeq(a.stream, a.iopos + 1, a.iopos + n),
                   !.iopos = a.iopos + n,
                   !.reads = a.reads + 1,
                   !.fill = read_more_loop(a.fill, n)]

(***************************************************************************)
(* codec/ttheader.rs: the TTHeader envelope.  A u16 is a number in         *)
(* 0..65535; a u32 (total_length, payload_length) is kept as the i32 with  *)
(* the same bits.  A header string (SmolStr) is [fill, n, tail]: n bytes   *)
(* `fill` followed by the bytes of tail, so that long strings stay small   *)
(* in the state; its bytes are what the codecs read and write.  An         *)
(* optional string is [some, v].  str_headers, a HashMap, is the sequence  *)
(* of its [key, val] entries in iteration order, the keys distinct.        *)
(***************************************************************************)
HEADER_DETECT_LENGTH == 6
MIN_HEADER_LENGTH == 14
TT_HEADER_MAGIC == 4096
MAX_HEADER_STRING_LENGTH == 4096
MAX_NUM_HEADERS == 1024
INFO_PADDING == 0
INFO_KEY_VALUE == 1
INFO_INT_KEY_VALUE == 16
ACL_TOKEN_KEY_VALUE == 17
INDEX_TABLE_SIZE == 27

\* enum ProtocolId: Binary = 0, Compact = 2, CompactV2 = 3, Protobuf = 4
ProtocolIds == {0, 2, 3, 4}

U16Max == 65535

to_be_bytes_u16(n) == <<n \div 256, n % 256>>

\* SmolStr
Str(fill, n, tail) == [fill |-> fill, n |-> n, tail |-> tail]
SmolStr(bytes) == Str(0, 0, bytes)
as_bytes(s) == [i \in 1..s.n |-> s.fill] \o s.tail
StrLen(s) == s.n + Len(s.tail)

None == [some |-> FALSE, v |-> SmolStr(<<>>)]
Some(v) == [some |-> TRUE, v |-> v]

\* the dense table with the given entries (a set of [key, val])
IntHeaders(entries) ==
    [k \in 0..(INDEX_TABLE_SIZE - 1) |->
        IF \E e \in entries : e.key = k
        THEN Some((CHOOSE e \in entries : e.key = k).val)
        ELSE None]

\* TTHeader::new() / Default
DefaultTTHeader ==
    [header_length |-> 0, payload_length |-> 0, seq_id |-> 0, flags |-> 0,
     protocol_id |-> 0, int_headers |-> IntHeaders({}), int_headers_ext |-> <<>>,
     str_headers |-> <<>>, acl_token |-> None]

\* u32 arithmetic on bit patterns: p + k and p - k for 0 <= k < 2^31,
\* modulo 2^32, and whether the true result leaves 0..2^32-1
U32Add(p, k) ==
    IF p >= 0 /\ p > MaxI32 - k THEN ((p + MinI32) + k) + MinI32 ELSE p + k

U32AddOverflows(p, k) == p < 0 /\ p + k >= 0

U32Sub(p, k) ==
    IF p < 0 /\ p < MinI32 + k THEN (((p - MinI32) - k) + MaxI32) + 1 ELSE p - k

U32SubUnderflows(p, k) == p >= 0 /\ p < k

\* put_str: dst.put_u16(s.len() as u16); dst.put_slice(s.as_bytes())
put_str(s) == to_be_bytes_u16(StrLen(s) % (U16Max + 1)) \o as_bytes(s)

\* for (key, val) in item.str_headers.iter() { put_str(key); put_str(val) }
RECURSIVE put_str_headers(_, _)
put_str_headers(entries, i) ==
    IF i > Len(entries) THEN <<>>
    ELSE put_str(entries[i].key) \o put_str(entries[i].val)
            \o put_str_headers(entries, i + 1)

\* the dense table, key by key: put_u16(key); put_str(val)
RECURSIVE put_int_headers(_, _)
put_int_headers(table, key) ==
    IF key >= INDEX_TABLE_SIZE THEN <<>>
    ELSE (IF table[key].some
          THEN to_be_bytes_u16(key) \o put_str(table[key].v) ELSE <<>>)
            \o put_int_headers(table, key + 1)

\* the overflow entries lo..hi: put_u16(*key); put_slice(val.as_bytes())
\* (split in halves to keep the evaluation shallow)
RECURSIVE put_int_headers_ext(_, _, _)
put_int_headers_ext(ext, lo, hi) ==
    IF lo > hi THEN <<>>
    ELSE IF lo = hi THEN to_be_bytes_u16(ext[lo].key) \o as_bytes(ext[lo].val)
    ELSE LET mid == (lo + hi) \div 2
             first == put_int_headers_ext(ext, lo, mid)
         IN  first \o put_int_headers_ext(ext, mid + 1, hi)

\* int_kv_len += 1 on a u16: the additions wrap or panic when the entries
\* written are more than 65535
IntKvLenOverflows(entries) == entries > U16Max

\* the header size field: ((header_size - 14) / 4).try_into().unwrap()
HeaderSizeFits(words) == words <= U16Max

\* let padding = (4 - overflow) % 4
Padding_NoWrap(overflow) == 4 - overflow

Padding(overflow) == (4 - overflow) % 4

\* The destination while an encoder appends to it: [len, bm, ok], its
\* length, its BytesMut and whether no advance_mut has panicked so far
Dst(len, bm) == [len |-> len, bm |-> bm, ok |-> TRUE]

\* dst.reserve(additional)
room_reserve(d, additional, unique) ==
    [d EXCEPT !.bm = BytesMut_reserve(d.bm, d.len, additional, unique)]

\* dst.put_u8 .. put_i32, put_slice, extend_from_slice of n bytes: the
\* buffer reserves the n bytes, then takes them
room_put(d, n, unique) ==
    IF ~d.ok THEN d
    ELSE [len |-> d.len + n, ok |-> TRUE,
          bm |-> BytesMut_reserve(d.bm, d.len, n, unique)]

\* unsafe { dst.advance_mut(cnt) }: the length moves over cnt bytes of the
\* capacity, and the call panics when fewer are left
advance_mut(d, cnt) ==
    IF ~d.ok THEN d
    ELSE IF cnt > d.bm.cap - d.len THEN [d EXCEPT !.ok = FALSE]
    ELSE [d EXCEPT !.len = @ + cnt]

\* the string KV loop on the destination: put_str(key), put_str(val), each
\* a put_u16 and a put_slice (every loop leaves a destination whose
\* advance_mut has panicked as it is)
RECURSIVE room_str_headers(_, _, _, _)
room_str_headers(d, entries, i, unique) ==
    IF ~d.ok \/ i > Len(entries) THEN d
    ELSE room_str_headers(
            room_put(room_put(room_put(room_put(d, 2, unique),
                                       StrLen(entries[i].key), unique),
                              2, unique),
                     StrLen(entries[i].val), unique),
            entries, i + 1, unique)

\* the dense int KV loop on the destination: put_u16(key), put_str(val)
RECURSIVE room_int_headers(_, _, _, _)
room_int_headers(d, table, key, unique) ==
    IF ~d.ok \/ key >= INDEX_TABLE_SIZE THEN d
    ELSE IF ~table[key].some THEN room_int_headers(d, table, key + 1, unique)
    ELSE room_int_headers(
            room_put(room_put(room_put(d, 2, unique), 2, unique),
                     StrLen(table[key].v), unique),
            table, key + 1, unique)

\* the int_headers_ext loop on the destination, entries lo..hi:
\* put_u16(*key), put_slice(val.as_bytes())
RECURSIVE room_int_headers_ext(_, _, _, _, _)
room_int_headers_ext(d, ext, lo, hi, unique) ==
    IF ~d.ok \/ lo > hi THEN d
    ELSE IF lo = hi
    THEN room_put(room_put(d, 2, unique), StrLen(ext[lo].val), unique)
    ELSE room_int_headers_ext(
            room_int_headers_ext(d, ext, lo, (lo + hi) \div 2, unique),
            ext, (lo + hi) \div 2 + 1, hi, unique)

\* let overflow = (dst.len() - 14 - zero_index) % 4;
\* (0..padding).for_each(|_| dst.put_u8(0)), left the padding bytes to put
RECURSIVE room_padding(_, _, _)
room_padding(d, left, unique) ==
    IF ~d.ok \/ left = 0 THEN d
    ELSE room_padding(room_put(d, 1, unique), left - 1, unique)

\* encode from dst.reserve(4 * 1024) to the placeholder of the int KV
\* count: the 4 bytes of the length, magic, flags, seq_id, the 2 bytes of
\* the header size, protocol id and transform count, the string KV info
\* with its count and entries, the int KV info id, advance_mut(2)
room_to_int_kv(item, len, bm, unique) ==
    advance_mut(
        room_put(
            room_str_headers(
                room_put(room_put(room_put(room_put(
                    advance_mut(
                        room_put(room_put(room_put(
                            advance_mut(
                                room_reserve(Dst(len, bm), 4 * 1024, unique),
                                4),
                            2, unique), 2, unique), 4, unique),
                        2),
                    1, unique), 1, unique), 1, unique), 2, unique),
                item.str_headers, 1, unique),
            1, unique),
        2)

\* and on over the dense table and the first n entries of int_headers_ext
room_int_kv(item, len, bm, n, unique) ==
    room_int_headers_ext(
        room_int_headers(room_to_int_kv(item, len, bm, unique),
                         item.int_headers, 0, unique),
        item.int_headers_ext, 1, n, unique)

\* the int headers the item has in its dense table
DenseEntries(item) ==
    Cardinality({k \in DOMAIN item.int_headers : item.int_headers[k].some})

\* the result of a call that panicked with the destination as in d
Panicked(dst, d) == [st |-> "panic", dst |-> dst, len |-> d.len, bm |-> d.bm]

\* encode with the destination's states at hand: int_kv at the placeholder
\* of the int KV count, upto behind the 65536th int KV entry, all behind
\* the last; these decide whether the call returns, the bytes are written
\* as before
encode_fill(item, dst, checks, unique, int_kv, upto, all) ==
    LET zero_index == Len(dst)
        entries == DenseEntries(item) + Len(item.int_headers_ext)
        int_kv_len == entries % (U16Max + 1)
        body == <<0, 0, 0, 0>>
                \o to_be_bytes_u16(TT_HEADER_MAGIC)
                \o to_be_bytes_u16(item.flags)
                \o to_be_bytes_i32(item.seq_id)
                \o <<0, 0>>
                \o <<item.protocol_id, 0>>
                \o <<INFO_KEY_VALUE>>
                \o to_be_bytes_u16(Len(item.str_headers) % (U16Max + 1))
                \o put_str_headers(item.str_headers, 1)
                \o <<INFO_INT_KEY_VALUE>>
                \o to_be_bytes_u16(int_kv_len)
                \o put_int_headers(item.int_headers, 0)
                \o put_int_headers_ext(item.int_headers_ext, 1,
                                       Len(item.int_headers_ext))
        overflow == (Len(body) - 14) % 4
        padding == Padding(overflow)
        padded == body \o Repeat(0, padding)
        header_size == Len(padded)
        words == (header_size - 14) \div 4
        length == U32Add(item.payload_length, header_size - 4)
    IN  IF ~int_kv.ok THEN Panicked(dst, int_kv)
        ELSE IF IntKvLenOverflows(entries) /\ checks THEN Panicked(dst, upto)
        ELSE IF ~HeaderSizeFits(words)
        THEN Panicked(dst, room_padding(all, padding, unique))
        ELSE [st |-> "Ok",
              dst |-> dst \o to_be_bytes_i32(length) \o Slice(padded, 4, 8)
                        \o to_be_bytes_u16(words)
                        \o Slice(padded, 14, header_size - 14),
              len |-> zero_index + header_size,
              bm |-> room_padding(all, padding, unique).bm]

\* TTHeaderEncoder::encode(item, dst), usize of 64 bits; bm is the BytesMut
\* of dst.  The result is the status, the buffer, its length and its
\* BytesMut; when the call panics, the bytes it had appended (their
\* placeholders never filled) are left out of dst and only counted in len.
\* The call panics at the placeholder of the int KV count when fewer than 2
\* bytes of capacity are left there.  checks: the build has overflow
\* checks, so that the u16 counter of the int KV entries panics where it
\* would wrap; it panics at the addition for the 65536th entry, that entry
\* written.
TTHeaderEncoder_encode(item, dst, bm, checks, unique) ==
    encode_fill(item, dst, checks, unique,
        room_to_int_kv(item, Len(dst), bm, unique),
        room_int_kv(item, Len(dst), bm, U16Max + 1 - DenseEntries(item), unique),
        room_int_kv(item, Len(dst), bm, Len(item.int_headers_ext), unique))

\* RawPayloadCodec::encode: dst.reserve(item.len());
\* dst.extend_from_slice(&item)
RawPayloadCodec_encode(payload, dst, bm, unique) ==
    [st |-> "Ok", dst |-> dst \o payload, len |-> Len(dst) + Len(payload),
     bm |-> room_put(room_reserve(Dst(Len(dst), bm), Len(payload), unique),
                     Len(payload), unique).bm]

\* (a variant that leaves the length the header encoder wrote)
TTHeaderPayloadEncoder_encode_KeepsHint(item, dst, bm, checks, unique) ==
    LET head == TTHeaderEncoder_encode(item.ttheader, dst, bm, checks, unique)
    IN  IF head.st # "Ok" THEN head
        ELSE IF ~item.payload.some THEN [head EXCEPT !.st = "panic"]
        ELSE RawPayloadCodec_encode(item.payload.v, head.dst, head.bm, unique)

\* let size = dst.len() - zero_index; the length again, (size - 4) as u32,
\* over the first 4 bytes of the frame
fill_length(zero_index, full) ==
    [full EXCEPT
        !.dst = Slice(full.dst, 0, zero_index)
                  \o to_be_bytes_i32(full.len - zero_index - 4)
                  \o Slice(full.dst, zero_index + 4, full.len - zero_index - 4)]

\* TTHeaderPayloadEncoder::encode with the raw payload codec: the header,
\* the payload, then the length again from the bytes written.  A header
\* encoder's panic is the call's; item.payload.expect("payload must some")
\* panics on an item without payload, the header written.
payload_behind(item, zero_index, head, unique) ==
    IF head.st # "Ok" THEN head
    ELSE IF ~item.payload.some THEN [head EXCEPT !.st = "panic"]
    ELSE fill_length(zero_index,
            RawPayloadCodec_encode(item.payload.v, head.dst, head.bm, unique))

TTHeaderPayloadEncoder_encode(item, dst, bm, checks, unique) ==
    payload_behind(item, Len(dst),
        TTHeaderEncoder_encode(item.ttheader, dst, bm, checks, unique), unique)

\* read_u16_checked!(buf, index, len): [ok, val, index]
read_u16_checked(buf, index, len) ==
    IF index + 2 > len
    THEN [ok |-> FALSE, val |-> 0, index |-> index]
    ELSE [ok |-> TRUE, val |-> from_be_bytes_u16(Slice(buf, index, 2)),
          index |-> index + 2]

\* read_str_checked!(buf, index, len): [ok, val, index]
read_str_checked_NoCap(buf, index, len) ==
    LET val_len == read_u16_checked(buf, index, len)
    IN  IF ~val_len.ok
        THEN [ok |-> FALSE, val |-> SmolStr(<<>>), index |-> index]
        ELSE IF val_len.index + val_len.val > len
        THEN [ok |-> FALSE, val |-> SmolStr(<<>>), index |-> val_len.index]
        ELSE [ok |-> TRUE,
              val |-> SmolStr(Slice(buf, val_len.index, val_len.val)),
              index |-> val_len.index + val_len.val]

read_str_checked(buf, index, len) ==
    LET val_len == read_u16_checked(buf, index, len)
    IN  IF ~val_len.ok
        THEN [ok |-> FALSE, val |-> SmolStr(<<>>), index |-> index]
        ELSE IF \/ val_len.index + val_len.val > len
                \/ val_len.val > MAX_HEADER_STRING_LENGTH
        THEN [ok |-> FALSE, val |-> SmolStr(<<>>), index |-> val_len.index]
        ELSE [ok |-> TRUE,
              val |-> SmolStr(Slice(buf, val_len.index, val_len.val)),
              index |-> val_len.index + val_len.val]

\* HashMap::insert(key, val)
HashMap_insert(entries, key, val) ==
    IF \E i \in 1..Len(entries) : entries[i].key = key
    THEN [i \in 1..Len(entries) |->
            IF entries[i].key = key THEN [key |-> key, val |-> val]
            ELSE entries[i]]
    ELSE Append(entries, [key |-> key, val |-> val])

\* the state of the walk over the header area
Walk(ok, index, item) == [ok |-> ok, index |-> index, item |-> item]

\* one turn of the string KV loop: key = read_str; val = read_str;
\* str_headers.insert(key, val).  A walk that has failed stays as it is.
str_kv_entry(buf, len, w) ==
    LET key == read_str_checked(buf, w.index, len)
        val == read_str_checked(buf, key.index, len)
    IN  IF ~w.ok THEN w
        ELSE IF ~key.ok THEN Walk(FALSE, key.index, w.item)
        ELSE IF ~val.ok THEN Walk(FALSE, val.index, w.item)
        ELSE Walk(TRUE, val.index,
                  [w.item EXCEPT !.str_headers =
                        HashMap_insert(@, key.val, val.val)])

\* kv_size turns, one after the other (split in halves to keep the
\* evaluation shallow)
RECURSIVE str_kv_loop(_, _, _, _)
str_kv_loop(buf, len, kv_size, w) ==
    IF kv_size = 0 THEN w
    ELSE IF kv_size = 1 THEN str_kv_entry(buf, len, w)
    ELSE LET first == str_kv_loop(buf, len, kv_size \div 2, w)
         IN  IF ~first.ok THEN first
             ELSE str_kv_loop(buf, len, kv_size - kv_size \div 2, first)

\* for _ in 0..kv_size { key = read_str; val = read_str; str_headers.insert }
read_str_kv(buf, index, len, kv_size, item) ==
    str_kv_loop(buf, len, kv_size, Walk(TRUE, index, item))

\* (a variant in which a slot of the dense table keeps its first value)
int_kv_entry_KeepsFirst(buf, len, w) ==
    LET key == read_u16_checked(buf, w.index, len)
        val == read_str_checked(buf, key.index, len)
    IN  IF ~w.ok THEN w
        ELSE IF ~key.ok THEN Walk(FALSE, key.index, w.item)
        ELSE IF ~val.ok THEN Walk(FALSE, val.index, w.item)
        ELSE Walk(TRUE, val.index,
                  IF key.val < INDEX_TABLE_SIZE
                  THEN IF w.item.int_headers[key.val].some THEN w.item
                       ELSE [w.item EXCEPT !.int_headers[key.val] = Some(val.val)]
                  ELSE [w.item EXCEPT !.int_headers_ext =
                            Append(@, [key |-> key.val, val |-> val.val])])

\* one turn of the int KV loop: key = read_u16; val = read_str; the dense
\* table for a key below its size, int_headers_ext for the others
int_kv_entry(buf, len, w) ==
    LET key == read_u16_checked(buf, w.index, len)
        val == read_str_checked(buf, key.index, len)
    IN  IF ~w.ok THEN w
        ELSE IF ~key.ok THEN Walk(FALSE, key.index, w.item)
        ELSE IF ~val.ok THEN Walk(FALSE, val.index, w.item)
        ELSE Walk(TRUE, val.index,
                  IF key.val < INDEX_TABLE_SIZE
                  THEN [w.item EXCEPT !.int_headers[key.val] = Some(val.val)]
                  ELSE [w.item EXCEPT !.int_headers_ext =
                            Append(@, [key |-> key.val, val |-> val.val])])

RECURSIVE int_kv_loop(_, _, _, _)
int_kv_loop(buf, len, kv_size, w) ==
    IF kv_size = 0 THEN w
    ELSE IF kv_size = 1 THEN int_kv_entry(buf, len, w)
    ELSE LET first == int_kv_loop(buf, len, kv_size \div 2, w)
         IN  IF ~first.ok THEN first
             ELSE int_kv_loop(buf, len, kv_size - kv_size \div 2, first)

\* for _ in 0..kv_size { key = read_u16; val = read_str; table or ext }
read_int_kv(buf, index, len, kv_size, item) ==
    int_kv_loop(buf, len, kv_size, Walk(TRUE, index, item))

\* match info_id { ... }: the arm taken
match_info_SkipsUnknown(info_id) ==
    CASE info_id = INFO_KEY_VALUE -> "key_value"
      [] info_id = INFO_INT_KEY_VALUE -> "int_key_value"
      [] info_id = ACL_TOKEN_KEY_VALUE -> "acl_token"
      [] OTHER -> "padding"

match_info(info_id) ==
    CASE info_id = INFO_PADDING -> "padding"
      [] info_id = INFO_KEY_VALUE -> "key_value"
      [] info_id = INFO_INT_KEY_VALUE -> "int_key_value"
      [] info_id = ACL_TOKEN_KEY_VALUE -> "acl_token"
      [] OTHER -> "_"

\* while index < header_length { match info_id { ... } }
RECURSIVE read_infos(_, _, _, _)
read_infos(buf, index, len, item) ==
    IF index >= len THEN Walk(TRUE, index, item)
    ELSE LET info_id == buf[index + 1]
             at == index + 1
             kv_size == read_u16_checked(buf, at, len)
             token == read_str_checked(buf, at, len)
             strs == read_str_kv(buf, kv_size.index, len, kv_size.val, item)
             ints == read_int_kv(buf, kv_size.index, len, kv_size.val, item)
             arm == match_info(info_id)
         IN  CASE arm = "padding" -> read_infos(buf, at, len, item)
               [] arm = "key_value" ->
                    IF ~kv_size.ok \/ kv_size.val > MAX_NUM_HEADERS
                    THEN Walk(FALSE, kv_size.index, item)
                    ELSE IF ~strs.ok THEN strs
                    ELSE read_infos(buf, strs.index, len, strs.item)
               [] arm = "int_key_value" ->
                    IF ~kv_size.ok THEN Walk(FALSE, kv_size.index, item)
                    ELSE IF ~ints.ok THEN ints
                    ELSE read_infos(buf, ints.index, len, ints.item)
               [] arm = "acl_token" ->
                    IF ~token.ok THEN Walk(FALSE, token.index, item)
                    ELSE read_infos(buf, token.index, len,
                            [item EXCEPT !.acl_token = Some(token.val)])
               [] OTHER -> Walk(FALSE, at, item)

\* the result of a decode call: dec is "Some", "InsufficientAtLeast", "Err"
\* or "panic"; kind the io::ErrorKind of an Err; n the byte count asked for;
\* item the decoded item; src the source buffer after the call
Dec(dec, kind, n, item, src) ==
    [dec |-> dec, kind |-> kind, n |-> n, item |-> item, src |-> src]

\* if self.header_length as usize > src.len() || header_size < 1
header_length_invalid_ZeroAllowed(header_size, header_length, avail) ==
    header_length > avail

header_length_invalid(header_size, header_length, avail) ==
    header_length > avail \/ header_size < 1

\* TTHeader::decode_header(total_length, src) on a fresh TTHeader; src holds
\* at least 10 bytes.  checks: the build has overflow checks, so that the
\* u32 subtraction panics where it would wrap.
decode_header(total_length, src, checks) ==
    LET flags == from_be_bytes_u16(Slice(src, 2, 2))
        seq_id == from_be_bytes_i32(Slice(src, 4, 4))
        header_size == from_be_bytes_u16(Slice(src, 8, 2))
        after == Slice(src, 10, Len(src) - 10)
        header_length == header_size * 4
        buf == Slice(after, 0, header_length)
        rest == Slice(after, header_length, Len(after) - header_length)
        underflows == \/ U32SubUnderflows(total_length, header_length)
                      \/ U32SubUnderflows(U32Sub(total_length, header_length), 10)
        payload_length == U32Sub(U32Sub(total_length, header_length), 10)
        item == [DefaultTTHeader EXCEPT
                    !.flags = flags, !.seq_id = seq_id,
                    !.header_length = header_length,
                    !.payload_length = payload_length,
                    !.protocol_id =
                        IF header_size >= 1 /\ buf[1] \in ProtocolIds
                        THEN buf[1] ELSE @]
        walk == read_infos(buf, 2, header_length, item)
    IN  IF header_length_invalid(header_size, header_length, Len(after))
        THEN Dec("Err", "InvalidData", 0, DefaultTTHeader, after)
        ELSE IF underflows /\ checks
        THEN Dec("panic", "", 0, DefaultTTHeader, rest)
        ELSE IF ~walk.ok
        THEN Dec("Err", "InvalidData", 0, DefaultTTHeader, rest)
        ELSE Dec("Some", "", 0, walk.item, rest)

\* src[4..HEADER_DETECT_LENGTH] == [0x10, 0x00]
HasMagic_FirstByteOnly(src) == src[5] = TT_HEADER_MAGIC \div 256

HasMagic(src) == Slice(src, 4, HEADER_DETECT_LENGTH - 4) = to_be_bytes_u16(TT_HEADER_MAGIC)

\* TTHeaderDecoder::decode(src)
TTHeaderDecoder_decode(src, checks) ==
    LET header_length == from_be_bytes_u16(Slice(src, 12, 2)) * 4
        length == from_be_bytes_i32(Slice(src, 0, 4))
    IN  IF Len(src) < MIN_HEADER_LENGTH
        THEN Dec("InsufficientAtLeast", "", MIN_HEADER_LENGTH, DefaultTTHeader, src)
        ELSE IF ~HasMagic(src)
        THEN Dec("Err", "Other", 0, DefaultTTHeader, src)
        ELSE IF Len(src) < header_length + MIN_HEADER_LENGTH
        THEN Dec("InsufficientAtLeast", "", header_length + MIN_HEADER_LENGTH,
                 DefaultTTHeader, src)
        ELSE decode_header(length, Slice(src, 4, Len(src) - 4), checks)

\* TTHeaderPayload: the header and the payload, an Option: [some, v].
\* TTHeaderPayload(ttheader, payload) is the item with Some(payload),
\* WithoutPayload(ttheader) the item with None
NoPayload == [some |-> FALSE, v |-> <<>>]
SomePayload(payload) == [some |-> TRUE, v |-> payload]

TTHeaderPayload(ttheader, payload) ==
    [ttheader |-> ttheader, payload |-> SomePayload(payload)]

WithoutPayload(ttheader) == [ttheader |-> ttheader, payload |-> NoPayload]

\* RawPayloadCodec::decode: Decoded::Some(Bytes::from(src.split())), which
\* takes every byte of src
RawPayloadCodec_decode(src) ==
    Dec("Some", "", 0, src, <<>>)

\* if src.len() < length as usize + 4, length the bits of a u32
frame_missing_LengthOnly(len, length) == length < 0 \/ len < length

frame_missing(len, length) == length < 0 \/ len - 4 < length

\* the frame of a decoded header: the payload codec takes what the header
\* left of src
payload_after(head, payload) ==
    Dec("Some", "", 0, TTHeaderPayload(head.item, payload.item), payload.src)

\* the outcome of TTHeaderPayloadDecoder::decode once the length word and
\* the header's outcome `head` are known
frame_of(src, length, none, head) ==
    IF Len(src) < MIN_HEADER_LENGTH
    THEN Dec("InsufficientAtLeast", "", MIN_HEADER_LENGTH, none, src)
    ELSE IF ~HasMagic(src)
    THEN Dec("Err", "Other", 0, none, src)
    ELSE IF frame_missing(Len(src), length)
    THEN Dec("InsufficientAtLeast", "",
             IF length < 0 \/ length > MaxI32 - 4 THEN MaxI32 ELSE length + 4,
             none, src)
    ELSE IF head.dec # "Some"
    THEN Dec(head.dec, head.kind, 0, none, head.src)
    ELSE payload_after(head, RawPayloadCodec_decode(head.src))

\* TTHeaderPayloadDecoder::decode(src) with the raw payload codec.  n is a
\* usize; the model keeps it to 2^31 - 1 when it is larger.
TTHeaderPayloadDecoder_decode(src, checks) ==
    frame_of(src, from_be_bytes_i32(Slice(src, 0, 4)),
             TTHeaderPayload(DefaultTTHeader, <<>>),
             decode_header(from_be_bytes_i32(Slice(src, 0, 4)),
                           Slice(src, 4, Len(src) - 4), checks))

(***************************************************************************)
(* Sequences of read_* calls on the synchronous reader, and the sequences  *)
(* of write_* calls that produce their input.  A call is [op, arg]: the    *)
(* operation's name and, for a write, its argument.                        *)
(***************************************************************************)
SyncOp(op, r, checks) ==
    CASE op = "byte" -> read_byte(r)
      [] op = "i8" -> read_i8(r)
      [] op = "bool" -> read_bool(r)
      [] op = "i16" -> read_i16(r)
      [] op = "i32" -> read_i32(r)
      [] op = "i64" -> read_i64(r)
      [] op = "double" -> read_double(r)
      [] op = "uuid" -> read_uuid(r)
      [] op = "bytes" -> read_bytes(r, checks)
      [] op = "string" -> read_string(r, checks)
      [] op = "field_begin" -> read_field_begin(r)
      [] op = "list_begin" -> read_list_begin(r)
      [] op = "set_begin" -> read_set_begin(r)
      [] op = "map_begin" -> read_map_begin(r)
      [] op = "message_begin" -> read_message_begin(r, checks)

\* the calls of script from the i-th on, made in turn until one fails:
\* [st, out, pos] with the values returned and the last status
RECURSIVE SyncRun(_, _, _, _, _)
SyncRun(buf, pos, script, i, checks) ==
    IF i > Len(script) THEN [st |-> "Ok", out |-> <<>>, pos |-> pos]
    ELSE LET res == SyncOp(script[i], Reader(buf, pos), checks) IN
         IF res.st # "Ok" THEN [st |-> res.st, out |-> <<>>, pos |-> res.pos]
         ELSE LET rest == SyncRun(buf, res.pos, script, i + 1, checks) IN
              [rest EXCEPT !.out = <<res.val>> \o rest.out]

Call(op, arg) == [op |-> op, arg |-> arg]

\* the size a container is begun with when it is to be ended with `size`
Declared(identifier) ==
    [identifier EXCEPT !.size = IF identifier.size = 0 THEN 1 ELSE 0]

\* the writer call that produces what the read call `op` consumes; a
\* container is begun with another size and ended at once with its count;
\* the Stop field is written by write_field_stop
WriteCall(w, c) ==
    CASE c.op = "byte" -> write_byte(w, c.arg)
      [] c.op = "i8" -> write_i8(w, c.arg)
      [] c.op = "bool" -> write_bool(w, c.arg)
      [] c.op = "i16" -> write_i16(w, c.arg)
      [] c.op = "i32" -> write_i32(w, c.arg)
      [] c.op = "i64" -> write_i64(w, c.arg)
      [] c.op = "double" -> write_double(w, c.arg)
      [] c.op = "uuid" -> write_uuid(w, c.arg)
      [] c.op = "bytes" -> write_bytes(w, c.arg)
      [] c.op = "string" -> write_string(w, c.arg)
      [] c.op = "field_begin" ->
            IF c.arg.field_type = T_Stop THEN write_field_stop(w)
            ELSE write_field_begin(w, c.arg.field_type, c.arg.id)
      [] c.op = "list_begin" ->
            write_list_end(write_list_begin(w, Declared(c.arg)), c.arg.size)
      [] c.op = "set_begin" ->
            write_set_end(write_set_begin(w, Declared(c.arg)), c.arg.size)
      [] c.op = "map_begin" ->
            write_map_end(write_map_begin(w, Declared(c.arg)), c.arg.size)
      [] c.op = "message_begin" -> write_message_begin(w, c.arg)

RECURSIVE WriteCalls(_, _, _)
WriteCalls(w, calls, i) ==
    IF i > Len(calls) THEN w ELSE WriteCalls(WriteCall(w, calls[i]), calls, i + 1)

Ops(calls) == [i \in 1..Len(calls) |-> calls[i].op]
Args(calls) == [i \in 1..Len(calls) |-> calls[i].arg]

(***************************************************************************)
(* The inputs of the read runs                                             *)
(***************************************************************************)
MessageIdent(name, message_type, sequence_number) ==
    [name |-> name, message_type |-> message_type,
     sequence_number |-> sequence_number]

FieldIdent(field_type, id) == [field_type |-> field_type, id |-> id]
ListIdent(element_type, size) == [element_type |-> element_type, size |-> size]
MapIdent(key_type, value_type, size) ==
    [key_type |-> key_type, value_type |-> value_type, size |-> size]

I64(hi, lo) == [hi |-> hi, lo |-> lo]

\* "ping", "thrift", and a string with 2-, 3- and 4-byte characters
NamePing == <<112, 105, 110, 103>>
StrThrift == <<116, 104, 114, 105, 102, 116>>
StrWide == <<195, 169, 226, 130, 172, 240, 159, 152, 128>>

\* a message of 37 bytes: a Call "ping" with an i32 and a string field
Message37 ==
    <<Call("message_begin", MessageIdent(NamePing, 1, 1)),
      Call("field_begin", FieldIdent(T_I32, 1)),
      Call("i32", 7),
      Call("field_begin", FieldIdent(T_Binary, 2)),
      Call("string", StrThrift),
      Call("field_begin", FieldIdent(T_Stop, 0))>>

\* one call of every other kind, in two runs
AllKinds ==
    <<Call("bool", TRUE),
      Call("byte", 200),
      Call("i8", -5),
      Call("list_begin", ListIdent(T_I16, 2)),
      Call("i16", -2),
      Call("i16", 3083),
      Call("set_begin", ListIdent(T_Bool, 1)),
      Call("bool", FALSE),
      Call("map_begin", MapIdent(T_I8, T_I64, 1)),
      Call("i8", 127),
      Call("i64", I64(-1, 5))>>

AllKindsMore ==
    <<Call("double", I64(1074340347, 1413754136)),
      Call("uuid", [i \in 1..16 |-> 16 * i - 1]),
      Call("bytes", <<0, 255>>),
      Call("string", StrWide),
      Call("string", <<>>)>>

\* the values a single primitive call is tried with
I8Samples == {-128, -1, 0, 1, 127}
I16Samples == {-32768, -2, 0, 3083, 32767}
I32Samples == {MinI32, -1, 0, 252510220, MaxI32}
ByteSamples == {0, 1, 127, 128, 255}
BytesSamples == {<<>>, <<0>>, <<255, 0>>, <<104, 105>>, StrWide}
StrSamples == {<<>>, <<104, 105>>, StrWide}
MessageTypes == 1..4
ContainerSizes == {0, 1, 2, 65536, MaxI32}

ReadInput(buf, script, args, kind) ==
    [buf |-> buf, script |-> script, args |-> args, kind |-> kind]

\* the bytes the writer produces for the calls, to be read by the same calls
Written(calls) ==
    ReadInput(WriteCalls(NewWriter(<<>>), calls, 1).trans, Ops(calls), Args(calls),
              "written")

\* the single calls, each kind with its sample values
SingleCalls ==
    <<{<<Call("i8", x)>> : x \in I8Samples},
      {<<Call("i16", x)>> : x \in I16Samples},
      {<<Call("i32", x)>> : x \in I32Samples},
      {<<Call("byte", x)>> : x \in ByteSamples},
      {<<Call("bytes", x)>> : x \in BytesSamples},
      {<<Call("string", x)>> : x \in StrSamples},
      {<<Call("i64", I64(x, y))>> : x \in I32Samples, y \in I32Samples},
      {<<Call("field_begin", FieldIdent(t, id))>> :
            t \in TTypeValues \ {T_Stop}, id \in I16Samples},
      {<<Call("field_begin", FieldIdent(T_Stop, 0))>>},
      {<<Call(op, ListIdent(t, n))>> :
            op \in {"list_begin", "set_begin"}, t \in TTypeValues, n \in ContainerSizes},
      {<<Call("map_begin", MapIdent(k, v, n))>> :
            k \in {T_I32, T_Binary}, v \in TTypeValues, n \in ContainerSizes},
      {<<Call("message_begin", MessageIdent(name, t, seq))>> :
            name \in StrSamples, t \in MessageTypes, seq \in I32Samples},
      {Message37},
      {AllKinds, AllKindsMore}>>

\* first words for read_message_begin: positive, zero, version 1 with each
\* low nibble class, and other high halves
WordSamples ==
    {0, 1, 65537, MaxI32,
     VERSION_1_i32 + 1, VERSION_1_i32 + 4, VERSION_1_i32, VERSION_1_i32 + 5,
     VERSION_1_i32 + 256 + 2, VERSION_1_i32 + 3, VERSION_1_i32 + 15,
     VERSION_1_i32 + 16 + 1, VERSION_1_i32 + 65520 + 3, VERSION_1_i32 + 65520 + 8,
     VERSION_1_i32 + 65536 + 1, VERSION_1_i32 + 65536, VERSION_1_i32 - 65536 + 3,
     -1, -65536 + 2, MinI32, MinI32 + 1}

\* what follows the first word: the name "a" and the sequence number 9
AfterWord == <<0, 0, 0, 1, 97, 0, 0, 0, 9>>

AllTags == 0..255

TagKind(b) == IF b \in TTypeValues THEN "tag" ELSE "badtag"

TagOps == {"field_begin", "list_begin", "set_begin", "map_begin"}

\* what follows a tag byte: enough for an id or a count
AfterTag == <<0, 0, 0, 0, 0>>

\* the inputs that carry each byte as the type tag of a call that reads one
ReadTagInputs ==
    {ReadInput(<<b>> \o AfterTag, <<op>>, <<>>, TagKind(b)) :
        b \in AllTags, op \in TagOps}
    \cup {ReadInput(<<k, b>> \o AfterTag, <<"map_begin">>, <<>>, TagKind(b)) :
            b \in AllTags, k \in {T_I32, T_Struct}}

\* declared lengths and counts from a peer: negative ones that reach back
\* to or before the start of the buffer, zero, and positive ones within
\* and beyond the bytes that follow
DeclaredSamples ==
    {MinI32, -65536, -13, -12, -5, -4, -1, 0, 1, 3, 4, 65536, MaxI32}

\* what precedes the length: nothing, or an i64 that is read first
LengthLeads == { <<>>, <<"i64">> }

\* a length field and the bytes behind it, for read_bytes and read_string;
\* args holds the declared length
LengthInputs ==
    { ReadInput(Repeat(0, 8 * Len(lead)) \o to_be_bytes_i32(l) \o data,
                lead \o <<op>>, <<l>>, "length") :
        l \in DeclaredSamples, data \in {<<>>, <<97, 98, 99>>},
        lead \in LengthLeads, op \in {"bytes", "string"} }

\* a container header with a declared count, complete; args holds the
\* count
CountInputsRead ==
    { ReadInput(<<T_I32>> \o to_be_bytes_i32(n), <<op>>, <<n>>, "count") :
        n \in DeclaredSamples, op \in {"list_begin", "set_begin"} }
    \cup { ReadInput(<<T_I32, T_Binary>> \o to_be_bytes_i32(n),
                     <<"map_begin">>, <<n>>, "count") :
            n \in DeclaredSamples }

\* the state of a run of calls on the synchronous reader over the input
NewRun(in) ==
    [buf |-> in.buf, pos |-> 0, script |-> in.script, args |-> in.args,
     kind |-> in.kind, pc |-> 1, out |-> <<>>, st |-> "running", msg |-> "",
     last |-> [op |-> "", pos |-> 0]]

\* the state of the run after its next call `op` returned res
run_after(r, op, res) ==
    IF res.st = "Ok"
    THEN [r EXCEPT !.pos = res.pos, !.out = Append(r.out, res.val),
                   !.pc = r.pc + 1, !.last = [op |-> op, pos |-> r.pos],
                   !.st = IF r.pc + 1 > Len(r.script) THEN "done" ELSE "running"]
    ELSE [r EXCEPT !.pos = res.pos, !.st = res.st, !.msg = res.msg,
                   !.last = [op |-> op, pos |-> r.pos]]

\* the next call of the script is made
run_step(r, checks) ==
    run_after(r, r.script[r.pc],
              SyncOp(r.script[r.pc], Reader(r.buf, r.pos), checks))

(***************************************************************************)
(* The synchronous reader, one call per step                               *)
(***************************************************************************)
StartRead(in) ==
    /\ mode = "read"
    /\ wr = <<>> /\ wg = <<>> /\ th = <<>>
    /\ rd = NewRun(in)
    /\ sk = <<>> /\ stype = 0 /\ skind = "" /\ sstart = 0 /\ svlen = 0
    /\ ar = <<>> /\ ak = <<>>

InitRead ==
    \/ \E k \in 1..Len(SingleCalls) : \E calls \in SingleCalls[k] :
          LET in == Written(calls) IN
          \/ StartRead(in)
          \/ \E n \in 0..(Len(in.buf) - 1) :
                StartRead(ReadInput(SubSeq(in.buf, 1, n), in.script, <<>>, "short"))
    \/ \E w \in WordSamples :
          StartRead(ReadInput(to_be_bytes_i32(w) \o AfterWord, <<"message_begin">>,
                              <<>>, "word"))
    \/ \E in \in ReadTagInputs : StartRead(in)
    \/ \E in \in LengthInputs \cup CountInputsRead : StartRead(in)

ReadStep ==
    /\ mode = "read"
    /\ rd.st = "running"
    /\ \E checks \in BOOLEAN : rd' = run_step(rd, checks)
    /\ UNCHANGED <<mode, skipVars, ar, ak, wr, wg, th>>

NextRead == ReadStep

SpecRead == InitRead /\ [][NextRead]_vars

\* C6: synchronous read_message_begin fails with BadVersion for every first
\* word whose high 16 bits are not 0x8001, whatever its low bits (the word 0
\* included), and with BadVersion "Missing version" for every positive word
C6_VersionGate ==
    (mode = "read" /\ rd.kind = "word" /\ rd.st # "running") =>
        LET size == from_be_bytes_i32(SubSeq(rd.buf, 1, 4)) IN
        /\ (VersionBits(size) # VERSION_1_i32) => rd.st = "BadVersion"
        /\ (size > 0) =>
              (rd.st = "BadVersion" /\ rd.msg = "Missing version in ReadMessageBegin")

\* what read_message_begin does on a first word: positive words fail with
\* "Missing version"; a word that is not positive fails with InvalidData when
\* its low nibble is no message type, before its version bits are looked at
VersionGateAsCoded ==
    (mode = "read" /\ rd.kind = "word" /\ rd.st # "running") =>
        LET size == from_be_bytes_i32(SubSeq(rd.buf, 1, 4)) IN
        IF size > 0
        THEN rd.st = "BadVersion" /\ rd.msg = "Missing version in ReadMessageBegin"
        ELSE IF LowNibble(size) \notin MessageTypes THEN rd.st = "InvalidData"
        ELSE IF VersionBits(size) # VERSION_1_i32
             THEN rd.st = "BadVersion" /\ rd.msg = "Bad version in ReadMessageBegin"
             ELSE rd.st = "done"

\* C8: the values written by the writer are read back unchanged by the
\* matching calls of the synchronous reader (message, field and container
\* identifiers with the count given to *_end, the Stop field, and every
\* primitive), and the cursor then stands at the end of the written bytes
C8_WriteReadRoundTrip ==
    (mode = "read" /\ rd.kind = "written") =>
        /\ rd.st \in {"running", "done"}
        /\ \A i \in 1..Len(rd.out) : rd.out[i] = rd.args[i]
        /\ (rd.st = "done") =>
              (Len(rd.out) = Len(rd.script) /\ rd.pos = Len(rd.buf))

\* the 37-byte message has been written and read back call by call
C8_Witness ==
    /\ mode = "read" /\ rd.kind = "written" /\ rd.st = "done"
    /\ rd.script = Ops(Message37)
    /\ Len(rd.buf) = 37 /\ rd.pos = 37
    /\ rd.out[1].name = NamePing /\ rd.out[6].field_type = T_Stop

(***************************************************************************)
(* The asynchronous reader: a step is a stage of a call, the entry of      *)
(* read_more_at_least, or one io.read of its loop                          *)
(***************************************************************************)
StartAsync(in) ==
    /\ mode = "aread"
    /\ wr = <<>> /\ wg = <<>> /\ th = <<>>
    /\ ar = NewAsyncReader(in.buf, in.script)
    /\ skind = in.kind
    /\ sk = <<>> /\ stype = 0 /\ sstart = 0 /\ svlen = 0
    /\ rd = <<>> /\ ak = <<>>

\* attachments that were in use before: a BytesMut::with_capacity(capacity)
\* from whose front `taken` bytes were split off as a Bytes, and ones never
\* used
Attachment(capacity, taken) ==
    IF taken = 0 THEN BytesMut_with_capacity(capacity)
    ELSE BytesMut_split_to(BytesMut_with_capacity(capacity), taken)

Attachments ==
    { Attachment(2 * MIN_CAPACITY, 7004), Attachment(LargeCapacity, 65000),
      Attachment(10000, 0), Attachment(16, 0) }

\* the calls of the readers made of such an attachment
AttachmentCalls ==
    { <<Call("message_begin", MessageIdent(NamePing, 1, 1))>>,
      <<Call("bytes", <<104, 105>>), Call("i32", 7)>>,
      <<Call("i32", 252510220)>> }

\* a reader made of the attachment bm, which holds the first n bytes
StartAsyncFrom(in, n, bm) ==
    /\ mode = "aread"
    /\ wr = <<>> /\ wg = <<>> /\ th = <<>>
    /\ ar = from_parts(in.buf, in.script, n, bm)
    /\ skind = "attachment"
    /\ sk = <<>> /\ stype = 0 /\ sstart = 0 /\ svlen = 0
    /\ rd = <<>> /\ ak = <<>>

InitAsync ==
    \/ \E k \in 1..Len(SingleCalls) : \E calls \in SingleCalls[k] :
          LET in == Written(calls) IN
          \/ StartAsync(in)
          \/ \E n \in 0..(Len(in.buf) - 1) :
                /\ Len(in.buf) <= MaxShort
                /\ StartAsync(ReadInput(SubSeq(in.buf, 1, n), in.script, <<>>, "short"))
    \/ \E in \in ReadTagInputs : StartAsync(in)
    \/ \E calls \in AttachmentCalls, bm \in Attachments, n \in {0, 2} :
          StartAsyncFrom(Written(calls), n, bm)

\* the source's answers to io.read for the fill in progress: 0 at the end
\* of the stream and for a slice without room
SourceReturns(stream, iopos, fill) ==
    IF iopos = Len(stream) \/ fill.end <= fill.read THEN {0}
    ELSE ChunkSizes(Len(stream) - iopos, fill.end - fill.read)

AsyncStep ==
    /\ mode = "aread"
    /\ ar.st = "running" /\ ~ar.fill.on
    /\ AWant(ar) >= 0 /\ AWant(ar) <= Len(ar.att)
    /\ ar' = async_step(ar)
    /\ UNCHANGED <<mode, skipVars, rd, ak, wr, wg, th>>

AsyncFill ==
    /\ mode = "aread"
    /\ ar.st = "running" /\ ~ar.fill.on
    /\ (AWant(ar) < 0 \/ AWant(ar) > Len(ar.att))
    /\ \E unique \in BOOLEAN : ar' = async_fill(ar, unique)
    /\ UNCHANGED <<mode, skipVars, rd, ak, wr, wg, th>>

AsyncRead ==
    /\ mode = "aread"
    /\ ar.st = "running" /\ ar.fill.on
    /\ \E n \in SourceReturns(ar.stream, ar.iopos, ar.fill) : ar' = async_read(ar, n)
    /\ UNCHANGED <<mode, skipVars, rd, ak, wr, wg, th>>

NextAsync == AsyncStep \/ AsyncFill \/ AsyncRead

SpecAsync == InitAsync /\ [][NextAsync]_vars

\* C3: for every stream the synchronous reader parses successfully with a
\* sequence of read_* calls, the asynchronous reader fed the stream in any
\* non-empty chunks returns the same values for the same calls
C3_AsyncEquivalence ==
    (mode = "aread") =>
        \A checks \in BOOLEAN :
            LET s == SyncRun(ar.stream, 0, ar.script, 1, checks) IN
            (s.st = "Ok") =>
                /\ ar.st \in {"running", "done"}
                /\ Len(ar.out) <= Len(s.out)
                /\ \A i \in 1..Len(ar.out) : ar.out[i] = s.out[i]
                /\ (ar.st = "done") => Len(ar.out) = Len(s.out)

\* the 37-byte message has been read to its end from a source that gave one
\* byte per read
C3_Witness ==
    /\ mode = "aread" /\ ar.st = "done"
    /\ Len(ar.stream) = 37 /\ ar.reads = 37 /\ Len(ar.out) = 6
    /\ ar.out[1].name = NamePing

\* the same message read from a source that gave all 37 bytes at once
AllAtOnceReached ==
    ~(/\ mode = "aread" /\ ar.st = "done"
      /\ Len(ar.stream) = 37 /\ ar.reads = 1 /\ Len(ar.out) = 6)

(***************************************************************************)
(* binary.rs: the asynchronous skipper TBinaryProtocol<IO, Cursor<BytesMut>>*)
(* in skip_field.  Its loop is the skip machine above, over the attachment *)
(* (the bytes read from the source so far, none removed) and its cursor;   *)
(* a skipper is [stream, iopos, reads, m, fill].                           *)
(***************************************************************************)
NewAsyncSkip(stream, ttype) ==
    [stream |-> stream, iopos |-> 0, reads |-> 0, m |-> NewSkip(<<>>, 0, ttype),
     bm |-> BytesMut_new, fill |-> NoFill]

\* Cursor::remaining of the attachment
SkipRemaining(m) == IF Len(m.buf) >= m.pos THEN Len(m.buf) - m.pos ELSE 0

\* a require_data!(n) whose n = cnt * unit is 2^31 or more
Huge(req) ==
    req.unit # 0 /\ (req.cnt < 0 \/ req.cnt > MaxI32 \div req.unit)

\* more than any stream holds
Unbounded == MaxI32

\* read_more_at_least entered for more bytes than the model counts: the
\* buffer reserved, of len bytes, has room for all the source can give
Reserved(len, most) ==
    [fill |-> [on |-> TRUE, read |-> len, at_least |-> most, end |-> most],
     buffer |-> [cap |-> most, off |-> 0, vcap |-> most, shared |-> FALSE,
                 orig |-> 0]]

\* require_data!(self, n) with n <= remaining: the micro-step runs
askip_step(k, checks) == [k EXCEPT !.m = Exec(k.m, checks)]

\* require_data!(self, n) with remaining < n: fill_at_least(n).  For a
\* binary length that was negative n is sign-extended and reserve panics;
\* for a count of 2^31 or more elements the buffer is reserved if the
\* allocator can (alloc) and the loop then reads until the source ends
askip_fill(k, alloc) ==
    LET req == Want(k.m)
        rem == SkipRemaining(k.m)
    IN  IF Huge(req)
        THEN IF k.m.ph.k = "bin_body" THEN [k EXCEPT !.m.res = "panic"]
             ELSE IF ~alloc THEN [k EXCEPT !.m.res = "abort"]
             ELSE Filling(k, Reserved(Len(k.m.buf), Unbounded))
        ELSE Filling(k, read_more_at_least(k.bm, Len(k.m.buf),
                                           req.cnt * req.unit - rem, TRUE))

\* (a variant that reports the end of the source as invalid data)
askip_read_EofInvalidData(k, n) ==
    IF n = 0 THEN [k EXCEPT !.m.res = "InvalidData", !.fill = NoFill]
    ELSE [k EXCEPT !.m.buf = k.m.buf \o SubSeq(k.stream, k.iopos + 1, k.iopos + n),
                   !.iopos = k.iopos + n,
                   !.reads = k.reads + 1,
                   !.fill = read_more_loop(k.fill, n)]

\* io.read returned n bytes (0: UnexpectedEof, an IOError)
askip_read(k, n) ==
    IF n = 0 THEN [k EXCEPT !.m.res = "IOError", !.fill = NoFill]
    ELSE [k EXCEPT !.m.buf = k.m.buf \o SubSeq(k.stream, k.iopos + 1, k.iopos + n),
                   !.iopos = k.iopos + n,
                   !.reads = k.reads + 1,
                   !.fill = read_more_loop(k.fill, n)]

\* the inputs that carry a type tag at each place skip_field reads one: a
\* struct field, a list or set element type, a map key and value type, and
\* the same inside a struct field
SkipTagInputs ==
    {SkipInput(<<b>> \o AfterTag, 0, T_Struct, TagKind(b), 0) : b \in AllTags}
    \cup {SkipInput(<<b>> \o AfterTag, 0, t, TagKind(b), 0) :
            b \in AllTags, t \in {T_List, T_Set}}
    \cup {SkipInput(<<b, T_I32>> \o AfterTag, 0, T_Map, TagKind(b), 0) : b \in AllTags}
    \cup {SkipInput(<<T_Binary, b>> \o AfterTag, 0, T_Map, TagKind(b), 0) : b \in AllTags}
    \cup {SkipInput(<<T_List, 0, 1, b>> \o AfterTag, 0, T_Struct, TagKind(b), 0) :
            b \in AllTags}

StartAsyncSkip(in) ==
    /\ mode = "askip"
    /\ wr = <<>> /\ wg = <<>> /\ th = <<>>
    /\ ak = NewAsyncSkip(SubSeq(in.buf, in.start + 1, Len(in.buf)), in.t)
    /\ stype = in.t /\ skind = in.kind /\ sstart = 0 /\ svlen = in.vlen
    /\ sk = <<>> /\ rd = <<>> /\ ar = <<>>

AsyncSkipStep ==
    /\ mode = "askip"
    /\ ak.m.res = "running" /\ ~ak.fill.on
    /\ ~Lacks(SkipRemaining(ak.m), Want(ak.m))
    /\ \E checks \in BOOLEAN : ak' = askip_step(ak, checks)
    /\ UNCHANGED <<mode, skipVars, rd, ar, wr, wg, th>>

AsyncSkipFill ==
    /\ mode = "askip"
    /\ ak.m.res = "running" /\ ~ak.fill.on
    /\ Lacks(SkipRemaining(ak.m), Want(ak.m))
    /\ \E alloc \in BOOLEAN : ak' = askip_fill(ak, alloc)
    /\ UNCHANGED <<mode, skipVars, rd, ar, wr, wg, th>>

AsyncSkipRead ==
    /\ mode = "askip"
    /\ ak.m.res = "running" /\ ak.fill.on
    /\ \E n \in SourceReturns(ak.stream, ak.iopos, ak.fill) : ak' = askip_read(ak, n)
    /\ UNCHANGED <<mode, skipVars, rd, ar, wr, wg, th>>

(***************************************************************************)
(* Synchronous skip_field, one micro-step of its loop per step             *)
(***************************************************************************)
StartSkip(in) ==
    /\ mode = "skip"
    /\ wr = <<>> /\ wg = <<>> /\ th = <<>>
    /\ rd = <<>> /\ ar = <<>> /\ ak = <<>>
    /\ sk = NewSkip(in.buf, in.start, in.t)
    /\ stype = in.t
    /\ skind = in.kind
    /\ sstart = in.start
    /\ svlen = in.vlen

InitSkip ==
    \/ \E v \in Values, lead \in Leads :
          LET e == Encode(v) IN
          \* a well-formed encoding followed by arbitrary bytes
          \/ \E trail \in Trails :
                StartSkip(SkipInput(lead \o e \o trail, Len(lead), v.t, "valid", Len(e)))
          \* an encoding cut before its end: every proper prefix
          \/ \E n \in 0..(Len(e) - 1) :
                StartSkip(SkipInput(lead \o SubSeq(e, 1, n), Len(lead), v.t, "short", 0))
    \/ \E in \in HostileInputs : StartSkip(in)
    \/ \E in \in SkipTagInputs : StartSkip(in)

\* a build with or without overflow checks
SkipStep ==
    /\ mode = "skip"
    /\ sk.res = "running"
    /\ \E checks \in BOOLEAN : sk' = skip_step(sk, checks)
    /\ UNCHANGED <<mode, stype, skind, sstart, svlen, rd, ar, ak, wr, wg, th>>

NextSkip == SkipStep

SpecSkip == InitSkip /\ [][NextSkip]_vars

\* C1: on a well-formed encoding of a value of type T followed by arbitrary
\* bytes R, skip_field(T) returns Ok with the cursor at the first byte of
\* R, the position reached by reading the value in full with read_*.
C1_SkipEquivalence ==
    (skind = "valid" /\ sk.res # "running") =>
        /\ sk.res = "Ok"
        /\ sk.pos = sstart + svlen
        /\ \A checks \in BOOLEAN :
            LET full == ReadValue(Reader(sk.buf, sstart), stype, checks) IN
            full.st = "Ok" /\ full.pos = sk.pos

\* C2 (as claimed): on input that ends before the value is complete
\* skip_field fails with InvalidData, and the cursor never passes the end
\* of the input.
C2_ShortInputInvalidData ==
    (skind \in {"short", "hostile"}) =>
        /\ sk.pos <= Len(sk.buf)
        /\ sk.res # "running" => sk.res = "InvalidData"

\* the same for the truncated encodings alone (no declared count >= 2^31)
ShortInputFails ==
    (skind = "short") =>
        /\ sk.pos <= Len(sk.buf)
        /\ sk.res # "running" => sk.res = "InvalidData"

\* the cursor stays inside the input on every input
CursorInBounds == sk.pos <= Len(sk.buf)

\* C1 witness: scenario E2 (struct > map > list) skipped with bytes before
\* and after it
C1_Witness ==
    /\ skind = "valid" /\ sk.res = "Ok" /\ stype = T_Struct
    /\ sstart > 0 /\ Len(sk.buf) > sk.pos
    /\ Slice(sk.buf, sstart, svlen) = Encode(ScenarioE2)
    /\ sk.pos = sstart + svlen

(***************************************************************************)
(* Every reader operation that takes a type tag, on every byte as the tag: *)
(* the calls of the synchronous and of the asynchronous reader, and        *)
(* skip_field of both                                                      *)
(***************************************************************************)
InitTags ==
    \/ \E in \in ReadTagInputs : StartRead(in) \/ StartAsync(in)
    \/ \E in \in SkipTagInputs : StartSkip(in) \/ StartAsyncSkip(in)

NextTags ==
    \/ ReadStep
    \/ SkipStep
    \/ AsyncStep \/ AsyncFill \/ AsyncRead
    \/ AsyncSkipStep \/ AsyncSkipFill \/ AsyncSkipRead

SpecTags == InitTags /\ [][NextTags]_vars

\* the type tag a call of the synchronous reader took last, if it took one:
\* the byte at the cursor, and for read_map_begin the byte after a valid one
TagsTaken(r) ==
    LET p == r.last.pos IN
    IF r.last.op \notin TagOps \/ Len(r.buf) <= p THEN {}
    ELSE {r.buf[p + 1]}
         \cup (IF /\ r.last.op = "map_begin"
                  /\ r.buf[p + 1] \in TTypeValues
                  /\ Len(r.buf) > p + 1
               THEN {r.buf[p + 2]} ELSE {})

\* C7: a byte outside {0,1,2,3,4,6,8,10,11,12,13,14,15,16} taken as a type
\* tag makes the operation fail with InvalidData: read_field_begin,
\* read_list_begin, read_set_begin, read_map_begin (key or value type) and
\* the type bytes inside skip_field, in the synchronous and the asynchronous
\* reader
C7_TypeTagClosure ==
    /\ (mode = "read") =>
          (\A b \in TagsTaken(rd) : (b \notin TTypeValues => rd.st = "InvalidData"))
    /\ (mode = "skip") =>
          ((sk.tag # -1 /\ sk.tag \notin TTypeValues) => sk.res = "InvalidData")
    /\ (mode = "aread") =>
          ((ar.tag # -1 /\ ar.tag \notin TTypeValues) => ar.st = "InvalidData")
    /\ (mode = "askip") =>
          ((ak.m.tag # -1 /\ ak.m.tag \notin TTypeValues) => ak.m.res = "InvalidData")

\* the byte 5 has been taken as a map's value type by the asynchronous
\* skip_field, which failed with InvalidData
C7_Witness ==
    /\ mode = "askip" /\ stype = T_Map
    /\ ak.m.tag = 5 /\ ak.m.pos = 2 /\ ak.m.res = "InvalidData"

\* the same byte taken by the three other readers
TagTakenBySyncRead ==
    ~(mode = "read" /\ rd.last.op = "map_begin" /\ 5 \in TagsTaken(rd)
      /\ rd.st = "InvalidData")
TagTakenBySyncSkip ==
    ~(mode = "skip" /\ stype = T_Struct /\ sk.tag = 5 /\ sk.pos = 4
      /\ sk.res = "InvalidData")
TagTakenByAsyncRead ==
    ~(mode = "aread" /\ ar.script = <<"set_begin">> /\ ar.tag = 5
      /\ ar.st = "InvalidData")

(***************************************************************************)
(* The writer: a step is one call.  wg records what the calls made so far  *)
(* promise: open, the containers begun and not ended ([kind, off, lost]:   *)
(* off is where the 4 count bytes of the begin lie, lost whether the       *)
(* caller has since cut them off through buf()), calls, their number,      *)
(* others, the number of those that are no begin and no end, and last,     *)
(* the call just made with the buffer before it.                           *)
(***************************************************************************)
MaxCalls == 5

\* the most calls of a run that are neither a begin nor an end
MaxOthers == 2

ContainerKinds == {"list", "set", "map"}

\* the lengths given to *_end (a usize below 2^31)
EndLens == {0, 258, MaxI32}

NoCall == [op |-> "none", kind |-> "", len |-> 0, prev |-> <<>>, open |-> <<>>]

InitWriter ==
    /\ mode = "write"
    /\ wr = NewWriter(<<>>)
    /\ wg = [open |-> <<>>, calls |-> 0, others |-> 0, last |-> NoCall]
    /\ sk = <<>> /\ stype = 0 /\ skind = "" /\ sstart = 0 /\ svlen = 0
    /\ rd = <<>> /\ ar = <<>> /\ ak = <<>> /\ th = <<>>

CanCall == mode = "write" /\ wr.st = "Ok" /\ wg.calls < MaxCalls

Called(op, kind, len) ==
    [op |-> op, kind |-> kind, len |-> len, prev |-> wr.trans, open |-> wg.open]

\* after a begin: the container is open, its count bytes are the last four
Begun(kind) ==
    /\ wg' = [wg EXCEPT !.open = Append(@, [kind |-> kind, off |-> Len(wr'.trans) - 4,
                                             lost |-> FALSE]),
                         !.calls = @ + 1, !.last = Called("begin", kind, 0)]
    /\ UNCHANGED <<mode, skipVars, rd, ar, ak, th>>

\* after an end: the innermost open container, if any, is closed
Ended(kind, len) ==
    /\ wg' = [wg EXCEPT !.open = SubSeq(@, 1, Len(@) - 1),
                         !.calls = @ + 1, !.last = Called("end", kind, len)]
    /\ UNCHANGED <<mode, skipVars, rd, ar, ak, th>>

\* the identifiers the begins are called with
BeginIdent(kind) ==
    CASE kind = "list" -> ListIdent(T_I32, 7)
      [] kind = "set" -> ListIdent(T_Binary, 0)
      [] kind = "map" -> MapIdent(T_I8, T_List, 0)

WriteListBegin ==
    /\ CanCall
    /\ wr' = write_list_begin(wr, BeginIdent("list"))
    /\ Begun("list")

WriteSetBegin ==
    /\ CanCall
    /\ wr' = write_set_begin(wr, BeginIdent("set"))
    /\ Begun("set")

WriteMapBegin ==
    /\ CanCall
    /\ wr' = write_map_begin(wr, BeginIdent("map"))
    /\ Begun("map")

WriteListEnd ==
    /\ CanCall
    /\ \E len \in EndLens : wr' = write_list_end(wr, len) /\ Ended("list", len)

WriteSetEnd ==
    /\ CanCall
    /\ \E len \in EndLens : wr' = write_set_end(wr, len) /\ Ended("set", len)

WriteMapEnd ==
    /\ CanCall
    /\ \E len \in EndLens : wr' = write_map_end(wr, len) /\ Ended("map", len)

\* the other writes, one call of each function that appends to the buffer
OtherCalls ==
    << {[op |-> "byte", arg |-> 170], [op |-> "i8", arg |-> -1],
        [op |-> "i16", arg |-> 5], [op |-> "i32", arg |-> -2]},
       {[op |-> "bool", arg |-> TRUE]},
       {[op |-> o, arg |-> [hi |-> 1, lo |-> -1]] : o \in {"i64", "double"}},
       {[op |-> o, arg |-> [i \in 1..k |-> 96 + i]] :
           o \in {"bytes", "string"}, k \in {2}}
       \cup {[op |-> "uuid", arg |-> [i \in 1..16 |-> i]]},
       {[op |-> "field_begin", arg |-> FieldIdent(t, 3)] : t \in {T_Stop, T_I16}},
       {[op |-> "message_begin", arg |-> MessageIdent(<<112>>, 1, 9)]} >>

\* what a caller does with the buffer buf() hands out
BufEdits ==
    {[op |-> "truncate", n |-> 2, bytes |-> <<>>],
     [op |-> "clear", n |-> 0, bytes |-> <<>>],
     [op |-> "put_slice", n |-> 0, bytes |-> <<1, 2>>]}

CanCallOther == CanCall /\ wg.others < MaxOthers

\* any other write between the begins and the ends
WriteOther ==
    /\ CanCallOther
    /\ \E k \in 1..Len(OtherCalls) : \E c \in OtherCalls[k] : wr' = WriteCall(wr, c)
    /\ wg' = [wg EXCEPT !.calls = @ + 1, !.others = @ + 1,
                        !.last = Called("other", "", 0)]
    /\ UNCHANGED <<mode, skipVars, rd, ar, ak, th>>

\* the open containers after the buffer was cut to n bytes
CutTo(open, n) ==
    [i \in 1..Len(open) |-> [open[i] EXCEPT !.lost = @ \/ open[i].off + 4 > n]]

\* the caller edits the buffer through buf()
WriteBuf ==
    /\ CanCallOther
    /\ \E edit \in BufEdits :
          /\ wr' = buf_edit(wr, edit)
          /\ wg' = [wg EXCEPT !.open = CutTo(@, Len(wr'.trans)),
                              !.calls = @ + 1, !.others = @ + 1,
                              !.last = Called("buf", edit.op, 0)]
    /\ UNCHANGED <<mode, skipVars, rd, ar, ak, th>>

NextWriter ==
    \/ WriteListBegin \/ WriteSetBegin \/ WriteMapBegin
    \/ WriteListEnd \/ WriteSetEnd \/ WriteMapEnd
    \/ WriteOther \/ WriteBuf

SpecWriter == InitWriter /\ [][NextWriter]_vars

\* the big-endian bytes of a number in 0..2^31-1
BigEndian32(n) ==
    <<n \div 16777216, (n \div 65536) % 256, (n \div 256) % 256, n % 256>>

\* C4: a *_end(len) overwrites exactly the 4 count bytes emitted by the
\* begin of the most recently opened, still unclosed container with the
\* big-endian 32-bit encoding of len; it changes no other byte of the buffer
\* and not the buffer's length
C4_Backpatch ==
    (mode = "write" /\ wg.last.op = "end" /\ wg.last.open # <<>>
     /\ ~wg.last.open[Len(wg.last.open)].lost) =>
        LET off == wg.last.open[Len(wg.last.open)].off
            prev == wg.last.prev
        IN  /\ wr.st = "Ok"
            /\ Len(wr.trans) = Len(prev)
            /\ SubSeq(wr.trans, off + 1, off + 4) = BigEndian32(wg.last.len)
            /\ \A i \in 1..Len(prev) :
                  (i <= off \/ i > off + 4) => wr.trans[i] = prev[i]

\* an inner container has been ended with 258 inside an outer one that was
\* begun before it and is still open, the byte after its count untouched
C4_Witness ==
    /\ mode = "write" /\ wr.st = "Ok"
    /\ wg.last.op = "end" /\ wg.last.kind = "map" /\ wg.last.len = 258
    /\ Len(wg.last.open) = 2
    /\ wg.last.open[2].kind = "map" /\ wg.last.open[1].kind = "list"
    /\ Len(wr.trans) > wg.last.open[2].off + 4

\* C5: the backpatch stack holds exactly one offset per container opened
\* and not yet closed (a begin pushes one, an end pops one), so it is empty
\* after a balanced sequence of calls; an end with no open container panics
\* ("illegal thrift pair") and writes nothing
C5_StackDiscipline ==
    (mode = "write") =>
        /\ (wr.st = "Ok") =>
              /\ Len(wr.att) = Len(wg.open)
              /\ \A i \in 1..Len(wg.open) : wr.att[i] = wg.open[i].off
        /\ (wg.last.op = "end" /\ wg.last.open = <<>>) =>
              (wr.st = "panic" /\ wr.trans = wg.last.prev)
        /\ (wr.st = "panic") =>
              /\ wg.last.op = "end"
              /\ wg.last.open = <<>> \/ wg.last.open[Len(wg.last.open)].lost

\* after a begin and its end, a second end has panicked
C5_Witness ==
    /\ mode = "write" /\ wr.st = "panic"
    /\ wg.calls = 3 /\ wg.last.op = "end" /\ wg.last.open = <<>>
    /\ Len(wr.trans) = 5 /\ wr.att = <<>>

\* an end whose count bytes the caller has cut off through buf() panics
\* at the slice index, the offset popped and the buffer as it was; one
\* whose place was filled again overwrites what lies there now
EndAfterCutAsCoded ==
    (mode = "write" /\ wg.last.op = "end" /\ wg.last.open # <<>>
     /\ wg.last.open[Len(wg.last.open)].lost) =>
        LET off == wg.last.open[Len(wg.last.open)].off
            prev == wg.last.prev
        IN  /\ Len(wr.att) = Len(wg.last.open) - 1
            /\ Len(wr.trans) = Len(prev)
            /\ IF off + 4 > Len(prev)
               THEN wr.st = "panic" /\ wr.trans = prev
               ELSE /\ wr.st = "Ok"
                    /\ SubSeq(wr.trans, off + 1, off + 4) = BigEndian32(wg.last.len)

\* write_list_begin, buf().truncate(2), write_list_end(0)
EndAfterTruncatePanicked ==
    /\ mode = "write" /\ wr.st = "panic" /\ wg.calls = 3
    /\ wg.last.op = "end" /\ wg.last.len = 0
    /\ wr.trans = <<T_I32, 0>> /\ wr.att = <<>>

\* write_list_begin, buf().clear(), write_list_end(0)
EndAfterClearPanicked ==
    /\ mode = "write" /\ wr.st = "panic" /\ wg.calls = 3
    /\ wg.last.op = "end" /\ wr.trans = <<>> /\ wr.att = <<>>

\* write_list_begin, write_i16(5), write_list_end(258)
EndAfterOtherWrite ==
    /\ mode = "write" /\ wr.st = "Ok" /\ wg.calls = 3 /\ wg.last.op = "end"
    /\ wr.trans = <<T_I32, 0, 0, 1, 2, 0, 5>> /\ wr.att = <<>>

\* the place of cut-off count bytes was filled again before the end
EndOverRewritten ==
    /\ mode = "write" /\ wr.st = "Ok" /\ wg.last.op = "end"
    /\ wg.last.open # <<>> /\ wg.last.open[Len(wg.last.open)].lost

\* a balanced sequence of five calls has left the stack empty
BalancedReached ==
    ~(mode = "write" /\ wr.st = "Ok" /\ wg.calls = 5 /\ wg.open = <<>>
      /\ wg.last.op = "end" /\ Len(wg.last.open) = 1 /\ Len(wr.trans) = 11)

(***************************************************************************)
(* The TTHeader codecs at work: the items of th.items are encoded one      *)
(* after the other into one buffer, which is then decoded call by call.    *)
(* kind "header" uses TTHeaderEncoder and TTHeaderDecoder, kind "frames"   *)
(* TTHeaderPayloadEncoder and TTHeaderPayloadDecoder over RawPayloadCodec. *)
(* th.wire keeps the bytes each encode call appended, th.out the decoded   *)
(* items, th.last the result of the last decode call, th.bm the BytesMut   *)
(* of the buffer and th.len its length.                                    *)
(***************************************************************************)
MaxFrames == 2
MaxPayload == 3

Ascii(n) == SmolStr([i \in 1..n |-> 96 + i])

Entry(key, val) == [key |-> key, val |-> val]

\* the k-th of the long keys: 4096 bytes, the last one telling them apart
LongKey(k) == Str(97, MAX_HEADER_STRING_LENGTH - 1, <<k>>)
LongVal == Str(98, MAX_HEADER_STRING_LENGTH, <<>>)

\* string headers in their iteration order
SmallStrHeaders ==
    { <<>>,
      <<Entry(Ascii(1), Ascii(0))>>,
      <<Entry(Ascii(0), Ascii(2))>>,
      <<Entry(Ascii(2), Ascii(1))>>,
      <<Entry(Ascii(1), Ascii(1)), Entry(Ascii(2), Ascii(3))>>,
      <<Entry(Ascii(2), Ascii(3)), Entry(Ascii(1), Ascii(1))>> }

LongStrHeaders(n) == [k \in 1..n |-> Entry(LongKey(k), LongVal)]

\* the most such headers a header area of 65535 words has room for
FitHeaders == (4 * U16Max - 8) \div (4 + 2 * MAX_HEADER_STRING_LENGTH)

\* RPCTimeoutMs = 12 -> "500"
RPCTimeoutMs == 12
Str500 == SmolStr(<<53, 48, 48>>)

IntTables ==
    { IntHeaders({}),
      IntHeaders({Entry(RPCTimeoutMs, Str500)}),
      IntHeaders({Entry(0, Ascii(0)), Entry(INDEX_TABLE_SIZE - 1, Ascii(2))}) }

\* payload_length as the bits of a u32: 0, 5, 2^31 - 1, 2^32 - 1
PayloadLengths == {0, 5, MaxI32, -1}

Header(protocol_id, flags, seq_id, payload_length, strs, ints) ==
    [DefaultTTHeader EXCEPT
        !.protocol_id = protocol_id, !.flags = flags, !.seq_id = seq_id,
        !.payload_length = payload_length, !.str_headers = strs,
        !.int_headers = ints]

SmallHeaders ==
    { Header(p, f, s, l, strs, ints) :
        p \in ProtocolIds, f \in {0, U16Max}, s \in {42, -1},
        l \in PayloadLengths, strs \in SmallStrHeaders, ints \in IntTables }

\* E5: Binary, seq_id 42, RPCTimeoutMs -> "500", no payload
ScenarioE5 ==
    Header(0, 0, 42, 0, <<>>, IntHeaders({Entry(RPCTimeoutMs, Str500)}))

LongHeaders ==
    { Header(0, 0, 42, 0, LongStrHeaders(n), IntHeaders({})) :
        n \in {1, FitHeaders, FitHeaders + 1} }

Payloads == { [i \in 1..n |-> 16 * i] : n \in 0..MaxPayload }

FrameHeaders ==
    { Header(0, 0, s, l, strs, IntHeaders({Entry(RPCTimeoutMs, Str500)})) :
        s \in {42, 43}, l \in {0, 7, -1},
        strs \in {<<>>, <<Entry(Ascii(1), Ascii(2))>>} }

Frames == { TTHeaderPayload(h, p) : h \in FrameHeaders, p \in Payloads }

\* one item, or MaxFrames of them
Runs(items) ==
    { <<i>> : i \in items }
        \cup { [k \in 1..MaxFrames |-> IF k = 1 THEN i ELSE j] :
                    i \in items, j \in items }

\* int headers with keys at or above the table size, in the order pushed
ExtLists ==
    { <<Entry(INDEX_TABLE_SIZE, Ascii(0))>>,
      <<Entry(100, Ascii(2))>>,
      <<Entry(U16Max, SmolStr(<<0, 1, 97>>))>>,
      <<Entry(INDEX_TABLE_SIZE, Ascii(1)), Entry(INDEX_TABLE_SIZE + 1, Ascii(3))>> }

ExtHeaders ==
    { [Header(0, 0, 42, l, strs, ints) EXCEPT !.int_headers_ext = ext] :
        l \in {0, 5}, strs \in SmallStrHeaders, ints \in IntTables,
        ext \in ExtLists }

\* 65535 and 65536 int headers: E5's entry of the dense table and entries
\* of int_headers_ext with the key 514 and an empty value
ManyExt(n) == [k \in 1..n |-> Entry(514, SmolStr(<<>>))]

ManyExtHeader(n) == [ScenarioE5 EXCEPT !.int_headers_ext = ManyExt(n)]

\* the kinds of run that use TTHeaderEncoder and TTHeaderDecoder: "header"
\* with int headers in the dense table only, "ext" with int_headers_ext
\* too, "many" with more int headers than a u16 counts
HeaderKinds == {"header", "ext", "many"}

\* the kinds of run that use TTHeaderPayloadEncoder and
\* TTHeaderPayloadDecoder: "frames" with a payload in every item, "edge"
\* with items without payload and with headers that end where the
\* encoder's reserve does
FrameKinds == {"frames", "edge"}

\* TTHeader::new() with the one string header "k" -> n bytes 'v': the
\* encoder has written 25 + n bytes when it comes to the int KV count
RoomHeader(n) ==
    [DefaultTTHeader EXCEPT
        !.str_headers = <<Entry(SmolStr(<<107>>), Str(118, n, <<>>))>>]

\* with the reserve of 4096 bytes in an empty buffer: 2 bytes left for the
\* count, 1 left, none left, and the byte before it makes the buffer grow
RoomLens == {4069, 4070, 4071, 4072}

RoomHeaders == { RoomHeader(n) : n \in RoomLens }

EdgeFrames ==
    { WithoutPayload(ScenarioE5), WithoutPayload(RoomHeader(4070)),
      TTHeaderPayload(RoomHeader(4069), <<1, 2>>),
      TTHeaderPayload(RoomHeader(4070), <<1, 2>>),
      TTHeaderPayload(ScenarioE5, <<1, 2>>) }

\* the buffers the items are encoded into: BytesMut::new() and
\* BytesMut::with_capacity(65536)
EncodeBuffers == {BytesMut_new, BytesMut_with_capacity(LargeCapacity)}

NoDec == [dec |-> "", kind |-> "", n |-> 0]

StartTTHeader(kind, items, bm) ==
    /\ mode = "tth"
    /\ th = [kind |-> kind, items |-> items, st |-> "encoding", buf |-> <<>>,
             len |-> 0, bm |-> bm, wire |-> <<>>, out |-> <<>>, last |-> NoDec]
    /\ sk = <<>> /\ stype = 0 /\ skind = "" /\ sstart = 0 /\ svlen = 0
    /\ rd = <<>> /\ ar = <<>> /\ ak = <<>> /\ wr = <<>> /\ wg = <<>>

InitTTHeader ==
    \/ \E h \in SmallHeaders \cup LongHeaders :
            StartTTHeader("header", <<TTHeaderPayload(h, <<>>)>>, BytesMut_new)
    \/ \E items \in Runs({TTHeaderPayload(h, <<>>) : h \in FrameHeaders}) :
            StartTTHeader("header", items, BytesMut_new)
    \/ \E h \in RoomHeaders, bm \in EncodeBuffers :
            \/ StartTTHeader("header", <<TTHeaderPayload(h, <<>>)>>, bm)
            \/ StartTTHeader("header", <<TTHeaderPayload(ScenarioE5, <<>>),
                                         TTHeaderPayload(h, <<>>)>>, bm)
    \/ \E items \in Runs(Frames) : StartTTHeader("frames", items, BytesMut_new)
    \/ \E item \in EdgeFrames, bm \in EncodeBuffers :
            \/ StartTTHeader("edge", <<item>>, bm)
            \/ StartTTHeader("edge", <<TTHeaderPayload(ScenarioE5, <<>>), item>>, bm)
    \/ \E h \in ExtHeaders :
            StartTTHeader("ext", <<TTHeaderPayload(h, <<>>)>>, BytesMut_new)
    \/ \E n \in {U16Max - 1, U16Max} :
            StartTTHeader("many", <<TTHeaderPayload(ManyExtHeader(n), <<>>)>>,
                          BytesMut_new)

\* the buffer after an encode call: the next item is encoded, or all are
Encoded(enc) ==
    IF enc.st # "Ok"
    THEN [th EXCEPT !.st = "panic", !.len = enc.len, !.bm = enc.bm]
    ELSE [th EXCEPT
            !.buf = enc.dst, !.len = enc.len, !.bm = enc.bm,
            !.wire = Append(@, Slice(enc.dst, Len(th.buf), enc.len - Len(th.buf))),
            !.st = IF Len(th.wire) + 1 = Len(th.items) THEN "decoding"
                   ELSE "encoding"]

\* the BytesMut of a source a decoder has taken n bytes from: the 14 bytes
\* of the length and the meta by advance and get_*, the header area, never
\* empty, by split_to, the payload by split
SrcTaken(bm, n) ==
    IF n > MIN_HEADER_LENGTH THEN BytesMut_split_to(bm, n)
    ELSE BytesMut_advance(bm, n)

\* the state after a decode call
DecodedBy(dec) ==
    [th EXCEPT
        !.buf = dec.src, !.len = Len(dec.src),
        !.bm = SrcTaken(@, Len(th.buf) - Len(dec.src)),
        !.last = [dec |-> dec.dec, kind |-> dec.kind, n |-> dec.n],
        !.out = IF dec.dec = "Some" THEN Append(@, dec.item) ELSE @,
        !.st = IF dec.dec # "Some" THEN dec.dec
               ELSE IF Len(th.out) + 1 = Len(th.items) THEN "done"
               ELSE "decoding"]

\* TTHeaderEncoder::encode(items[next].ttheader, buf)
EncodeHeader ==
    /\ mode = "tth" /\ th.kind \in HeaderKinds /\ th.st = "encoding"
    /\ \E checks \in BOOLEAN, unique \in BOOLEAN :
        th' = Encoded(TTHeaderEncoder_encode(
                        th.items[Len(th.wire) + 1].ttheader, th.buf, th.bm,
                        checks, unique))
    /\ UNCHANGED <<mode, skipVars, rd, ar, ak, wr, wg>>

\* TTHeaderPayloadEncoder::encode(items[next], buf)
EncodeFrame ==
    /\ mode = "tth" /\ th.kind \in FrameKinds /\ th.st = "encoding"
    /\ \E checks \in BOOLEAN, unique \in BOOLEAN :
        th' = Encoded(TTHeaderPayloadEncoder_encode(
                        th.items[Len(th.wire) + 1], th.buf, th.bm, checks,
                        unique))
    /\ UNCHANGED <<mode, skipVars, rd, ar, ak, wr, wg>>

\* TTHeaderDecoder::decode(buf)
DecodeHeader ==
    /\ mode = "tth" /\ th.kind \in HeaderKinds /\ th.st = "decoding"
    /\ \E checks \in BOOLEAN :
        LET dec == TTHeaderDecoder_decode(th.buf, checks)
        IN  th' = DecodedBy([dec EXCEPT !.item = TTHeaderPayload(@, <<>>)])
    /\ UNCHANGED <<mode, skipVars, rd, ar, ak, wr, wg>>

\* TTHeaderPayloadDecoder::decode(buf)
DecodeFrame ==
    /\ mode = "tth" /\ th.kind \in FrameKinds /\ th.st = "decoding"
    /\ \E checks \in BOOLEAN :
        th' = DecodedBy(TTHeaderPayloadDecoder_decode(th.buf, checks))
    /\ UNCHANGED <<mode, skipVars, rd, ar, ak, wr, wg>>

NextTTHeader == EncodeHeader \/ EncodeFrame \/ DecodeHeader \/ DecodeFrame

SpecTTHeader == InitTTHeader /\ [][NextTTHeader]_vars

\* the fields of a frame on the wire
TotalLengthField(wire) == from_be_bytes_i32(Slice(wire, 0, 4))
HeaderSizeField(wire) == from_be_bytes_u16(Slice(wire, 12, 2))

\* the bytes of frames from..Len(wire), one after the other
RECURSIVE Concat(_, _)
Concat(wire, from) ==
    IF from > Len(wire) THEN <<>> ELSE wire[from] \o Concat(wire, from + 1)

EntrySet(entries) ==
    { <<as_bytes(entries[i].key), as_bytes(entries[i].val)>> :
        i \in 1..Len(entries) }

SameHeaders(a, b) ==
    /\ a.seq_id = b.seq_id /\ a.flags = b.flags
    /\ a.protocol_id = b.protocol_id
    /\ Len(a.str_headers) = Len(b.str_headers)
    /\ EntrySet(a.str_headers) = EntrySet(b.str_headers)
    /\ \A k \in 0..(INDEX_TABLE_SIZE - 1) :
        /\ a.int_headers[k].some = b.int_headers[k].some
        /\ as_bytes(a.int_headers[k].v) = as_bytes(b.int_headers[k].v)

\* C9: TTHeaderPayloadDecoder gives the payload decoder exactly the
\* payload_length bytes of the current frame: each decoded item has the
\* payload of its own frame, the bytes of the frames that follow stay in the
\* buffer, and a buffer of two frames decodes into two items by two calls
C9_PayloadExactRange ==
    (mode = "tth" /\ th.kind = "frames") =>
        /\ th.st \in {"encoding", "decoding", "done"}
        /\ \A i \in 1..Len(th.out) : th.out[i].payload.v = th.items[i].payload.v
        /\ (th.st \in {"decoding", "done"}) =>
                th.buf = Concat(th.wire, Len(th.out) + 1)

\* what the code does: the raw payload codec is handed the whole rest of the
\* buffer, so the first item's payload is its own followed by every later
\* frame, the buffer is left empty and the next call asks for 14 bytes
PayloadTakesRest ==
    (mode = "tth" /\ th.kind = "frames") =>
        /\ th.st \in {"encoding", "decoding", "done", "InsufficientAtLeast"}
        /\ (Len(th.out) >= 1) =>
            /\ Len(th.out) = 1 /\ th.buf = <<>>
            /\ th.out[1].payload.v = th.items[1].payload.v \o Concat(th.wire, 2)
            /\ SameHeaders(th.out[1].ttheader, th.items[1].ttheader)
            /\ th.out[1].ttheader.payload_length = Len(th.items[1].payload.v)
        /\ (th.st = "done") => Len(th.items) = 1
        /\ (th.st = "InsufficientAtLeast") =>
            /\ Len(th.items) = 2 /\ Len(th.out) = 1
            /\ th.last.n = MIN_HEADER_LENGTH

\* two frames with payloads of 1 and 2 bytes: the first call has delivered
\* the first payload followed by the whole second frame
TwoFramesOneItem ==
    ~(/\ mode = "tth" /\ th.kind = "frames" /\ th.st = "InsufficientAtLeast"
      /\ Len(th.items) = 2
      /\ th.items[1].payload.v = <<16>> /\ th.items[2].payload.v = <<16, 32>>
      /\ Len(th.out) = 1 /\ th.out[1].payload.v = <<16>> \o th.wire[2])

\* the header area of the item in 4-byte words, as the encoder lays it out
RECURSIVE StrHeadersSize(_, _)
StrHeadersSize(entries, i) ==
    IF i > Len(entries) THEN 0
    ELSE 4 + StrLen(entries[i].key) + StrLen(entries[i].val)
            + StrHeadersSize(entries, i + 1)

RECURSIVE IntHeadersSize(_, _)
IntHeadersSize(table, key) ==
    IF key >= INDEX_TABLE_SIZE THEN 0
    ELSE (IF table[key].some THEN 4 + StrLen(table[key].v) ELSE 0)
            + IntHeadersSize(table, key + 1)

HeaderWords(item) ==
    (8 + StrHeadersSize(item.str_headers, 1)
       + IntHeadersSize(item.int_headers, 0) + 3) \div 4

\* C10: a TTHeader within the limits (at most 1024 string headers, strings
\* of at most 4096 bytes, int headers in the dense table only) is encoded,
\* and TTHeaderDecoder decodes the bytes into the same seq_id, flags,
\* protocol_id, str_headers and int_headers; header_length is 4 times the
\* header_size field, payload_length the one given to the encoder, and the
\* total_length field is 10 + header_length + payload_length
C10_HeaderRoundTrip ==
    (mode = "tth" /\ th.kind = "header") =>
        /\ th.st \in {"encoding", "decoding", "done"}
        /\ \A i \in 1..Len(th.wire) :
            LET given == th.items[i].ttheader.payload_length
                sum == 10 + 4 * HeaderSizeField(th.wire[i])
            IN  /\ ~U32AddOverflows(given, sum)
                /\ TotalLengthField(th.wire[i]) = U32Add(given, sum)
        /\ \A i \in 1..Len(th.out) :
            /\ SameHeaders(th.out[i].ttheader, th.items[i].ttheader)
            /\ th.out[i].ttheader.header_length = 4 * HeaderSizeField(th.wire[i])
            /\ th.out[i].ttheader.payload_length
                    = th.items[i].ttheader.payload_length

\* where the encoder advances over the 2 bytes of the int KV count, for
\* an item encoded at zero_index
CountPlace(item, zero_index) ==
    zero_index + 20 + StrHeadersSize(item.str_headers, 1)

\* the last encode call panicked there: fewer than 2 bytes of the buffer's
\* capacity were left
NoRoomForCount ==
    /\ mode = "tth" /\ th.st = "panic" /\ Len(th.wire) < Len(th.items)
    /\ th.len = CountPlace(th.items[Len(th.wire) + 1].ttheader, Len(th.buf))
    /\ th.bm.cap - th.len < 2

\* what the code does: the encoder panics when fewer than 2 bytes of
\* capacity are left for the int KV count and when the header area is
\* longer than 65535 words, the total_length field is the sum modulo 2^32,
\* and the decoder panics on its subtraction, in a build with overflow
\* checks, when the sum had wrapped; everything else is as C10 states
HeaderRoundTripAsCoded ==
    (mode = "tth" /\ th.kind = "header") =>
        /\ th.st \in {"encoding", "decoding", "done", "panic"}
        /\ (th.st = "panic") =>
            LET next == th.items[Len(th.out) + 1].ttheader
            IN  IF Len(th.wire) < Len(th.items)
                THEN \/ NoRoomForCount
                     \/ HeaderWords(th.items[Len(th.wire) + 1].ttheader) > U16Max
                ELSE U32AddOverflows(next.payload_length,
                        10 + 4 * HeaderSizeField(th.wire[Len(th.out) + 1]))
        /\ \A i \in 1..Len(th.wire) :
            /\ HeaderSizeField(th.wire[i]) = HeaderWords(th.items[i].ttheader)
            /\ TotalLengthField(th.wire[i])
                = U32Add(th.items[i].ttheader.payload_length,
                         10 + 4 * HeaderSizeField(th.wire[i]))
        /\ \A i \in 1..Len(th.out) :
            /\ SameHeaders(th.out[i].ttheader, th.items[i].ttheader)
            /\ th.out[i].ttheader.header_length = 4 * HeaderSizeField(th.wire[i])
            /\ th.out[i].ttheader.payload_length
                    = th.items[i].ttheader.payload_length

\* the buffer while the items are encoded: its length is within its
\* capacity, and that of its bytes unless the call panicked
EncodeWithinCapacity ==
    (mode = "tth" /\ th.st \in {"encoding", "decoding", "panic"}
        /\ th.out = <<>>) =>
        /\ th.len <= th.bm.cap
        /\ (th.st # "panic") => th.len = Len(th.buf)

\* the one string header "k" -> 4070 bytes into BytesMut::new(): the
\* reserve gave 4096 bytes, 4095 are written, the call has panicked
RoomHeaderPanicked ==
    /\ NoRoomForCount /\ th.kind = "header"
    /\ th.items = <<TTHeaderPayload(RoomHeader(4070), <<>>)>>
    /\ th.len = 4095 /\ th.bm.cap = 4096

\* with 4071 bytes no byte is left
RoomHeaderFilled ==
    /\ NoRoomForCount /\ th.kind = "header"
    /\ th.items = <<TTHeaderPayload(RoomHeader(4071), <<>>)>>
    /\ th.len = 4096 /\ th.bm.cap = 4096

\* with 4072 bytes the info id made the buffer grow: encoded and decoded
RoomHeaderGrown ==
    /\ mode = "tth" /\ th.kind = "header" /\ th.st = "done"
    /\ th.items = <<TTHeaderPayload(RoomHeader(4072), <<>>)>>
    /\ Len(th.wire[1]) = 4102
    /\ SameHeaders(th.out[1].ttheader, RoomHeader(4072))

\* the header of 4070 bytes into BytesMut::with_capacity(65536), and
\* behind an earlier frame in a buffer that started empty
RoomHeaderInLargeBuffer ==
    /\ mode = "tth" /\ th.kind = "header" /\ th.st = "decoding"
    /\ th.items = <<TTHeaderPayload(RoomHeader(4070), <<>>)>>
    /\ th.bm.cap = LargeCapacity /\ Len(th.buf) = 4098

RoomHeaderBehindFrame ==
    /\ mode = "tth" /\ th.kind = "header" /\ th.st = "decoding"
    /\ th.items = <<TTHeaderPayload(ScenarioE5, <<>>),
                    TTHeaderPayload(RoomHeader(4070), <<>>)>>
    /\ th.bm.cap = 2 * MIN_CAPACITY /\ Len(th.buf) = 30 + 4098

\* what TTHeaderPayloadEncoder does with the items of kind "edge": the
\* header encoder's panic is the call's, an item without payload panics
\* with its header written, every other item is encoded
EdgeFramesAsCoded ==
    (mode = "tth" /\ th.kind = "edge") =>
        /\ (th.st = "panic") =>
            /\ Len(th.wire) < Len(th.items)
            /\ LET item == th.items[Len(th.wire) + 1]
               IN  \/ NoRoomForCount
                   \/ /\ ~item.payload.some
                      /\ th.len = Len(th.buf) + MIN_HEADER_LENGTH
                                    + 4 * HeaderWords(item.ttheader)
        /\ \A i \in 1..Len(th.wire) : th.items[i].payload.some

\* E5 without payload: the 30 bytes of the header are written, the call
\* has panicked
NoPayloadPanicked ==
    /\ mode = "tth" /\ th.kind = "edge" /\ th.st = "panic"
    /\ th.items = <<WithoutPayload(ScenarioE5)>> /\ th.len = 30

\* the header of 4070 bytes with the payload 01 02 panicked at the count,
\* the one of 4069 bytes is encoded with it
EdgeFramePanicked ==
    /\ NoRoomForCount /\ th.kind = "edge"
    /\ th.items = <<TTHeaderPayload(RoomHeader(4070), <<1, 2>>)>>
    /\ th.len = 4095

EdgeFrameEncoded ==
    /\ mode = "tth" /\ th.kind = "edge" /\ th.st = "decoding"
    /\ th.items = <<TTHeaderPayload(RoomHeader(4069), <<1, 2>>)>>
    /\ th.bm.cap = 2 * MIN_CAPACITY /\ Len(th.buf) = 4100

\* E5 has been encoded and decoded: seq_id 42 and RPCTimeoutMs -> "500"
ScenarioE5Decoded ==
    ~(/\ mode = "tth" /\ th.kind = "header" /\ th.st = "done"
      /\ th.items = <<TTHeaderPayload(ScenarioE5, <<>>)>>
      /\ th.out[1].ttheader.seq_id = 42
      /\ th.out[1].ttheader.int_headers[RPCTimeoutMs] = Some(Str500)
      /\ TotalLengthField(th.wire[1]) = 26 /\ Len(th.wire[1]) = 30)

\* FitHeaders + 1 string headers with keys and values of 4096 bytes: the
\* encoder has panicked
LongHeadersPanic ==
    ~(/\ mode = "tth" /\ th.kind = "header" /\ th.st = "panic"
      /\ Len(th.items[1].ttheader.str_headers) = FitHeaders + 1
      /\ th.wire = <<>>)

\* one header fewer: encoded and decoded
LongHeadersDecoded ==
    ~(/\ mode = "tth" /\ th.kind = "header" /\ th.st = "done"
      /\ Len(th.items[1].ttheader.str_headers) = FitHeaders
      /\ Len(th.out[1].ttheader.str_headers) = FitHeaders)

\* the int_headers_ext entries as (key, bytes) pairs, in order
ExtPairs(ext) == [i \in 1..Len(ext) |-> <<ext[i].key, as_bytes(ext[i].val)>>]

\* C11: the encoder writes every int-key header value, those of
\* int_headers_ext included, with its 2-byte length, so that the encoded
\* header decodes and the decoded int_headers_ext, dense table and string
\* headers are the encoded ones
C11_ExtIntHeadersRoundTrip ==
    (mode = "tth" /\ th.kind = "ext") =>
        /\ th.st \in {"encoding", "decoding", "done"}
        /\ \A i \in 1..Len(th.out) :
            /\ SameHeaders(th.out[i].ttheader, th.items[i].ttheader)
            /\ ExtPairs(th.out[i].ttheader.int_headers_ext)
                    = ExtPairs(th.items[i].ttheader.int_headers_ext)

\* what the code does: the value of an int_headers_ext entry is written
\* without its length, so the decoder takes the value's first two bytes (or
\* the padding behind it) as the length: decoding ends in InvalidData or in
\* other pairs than the encoded ones
ExtValuesUnprefixed ==
    (mode = "tth" /\ th.kind = "ext") =>
        /\ th.st \in {"encoding", "decoding", "done", "Err"}
        /\ (th.st = "Err") => th.last.kind = "InvalidData"
        /\ \A i \in 1..Len(th.wire) :
            LET item == th.items[i].ttheader
                ext == item.int_headers_ext
                last == ext[Len(ext)]
                tail == to_be_bytes_u16(last.key) \o as_bytes(last.val)
                unpadded == 14 + 8 + StrHeadersSize(item.str_headers, 1)
                               + IntHeadersSize(item.int_headers, 0)
                               + Len(put_int_headers_ext(ext, 1, Len(ext)))
            IN  Slice(th.wire[i], unpadded - Len(tail), Len(tail)) = tail

\* key 100 with the value "ab": the decoder has read 0x6162 as a length and
\* failed
ExtValueRejected ==
    ~(/\ mode = "tth" /\ th.kind = "ext" /\ th.st = "Err"
      /\ th.items[1].ttheader.int_headers_ext = <<Entry(100, Ascii(2))>>
      /\ th.last.kind = "InvalidData")

\* key 65535 with the value 00 01 61: decoded as the value "a"
ExtValueMisread ==
    ~(/\ mode = "tth" /\ th.kind = "ext" /\ th.st = "done"
      /\ th.items[1].ttheader.int_headers_ext
            = <<Entry(U16Max, SmolStr(<<0, 1, 97>>))>>
      /\ th.out[1].ttheader.int_headers_ext = <<Entry(U16Max, SmolStr(<<97>>))>>)

\* the int KV count of a run of more int headers than a u16 counts: the
\* encoder panics at the addition for the 65536th entry, or writes the count
\* modulo 2^16 and all the entries; the decoder then takes the first
\* entry's key for an info id
ManyExtAsCoded ==
    (mode = "tth" /\ th.kind = "many") =>
        LET item == th.items[1].ttheader
            entries == 1 + Len(item.int_headers_ext)
            area == 22 + 7 + 2 * Len(item.int_headers_ext)
        IN  /\ th.st \in {"encoding", "decoding", "panic", "Err"}
            /\ (th.st = "panic") => (entries = U16Max + 1 /\ th.len = area)
            /\ (th.st \in {"decoding", "Err"} /\ Len(th.wire) = 1) =>
                  /\ Slice(th.wire[1], 20, 2) = to_be_bytes_u16(entries % (U16Max + 1))
                  /\ \A i \in 1..Len(th.wire[1]) : th.wire[1][i] \in Byte
                  /\ Len(th.wire[1]) = area + Padding((area - 14) % 4)
            /\ (th.st = "Err") => th.last.kind = "InvalidData"

\* 65536 int headers: the build with overflow checks has panicked
ManyExtPanicked ==
    /\ mode = "tth" /\ th.kind = "many" /\ th.st = "panic"
    /\ Len(th.items[1].ttheader.int_headers_ext) = U16Max
    /\ th.len = 131099

\* 65536 int headers: the build that wraps has written the count 00 00
ManyExtCountWrapped ==
    /\ mode = "tth" /\ th.kind = "many" /\ th.st = "decoding"
    /\ Len(th.items[1].ttheader.int_headers_ext) = U16Max
    /\ Slice(th.wire[1], 20, 2) = <<0, 0>>

\* 65535 int headers: the count FF FF, on every build
ManyExtCountFits ==
    /\ mode = "tth" /\ th.kind = "many" /\ th.st = "decoding"
    /\ Len(th.items[1].ttheader.int_headers_ext) = U16Max - 1
    /\ Slice(th.wire[1], 20, 2) = <<255, 255>>

RECURSIVE ExtHeadersSize(_, _, _)
ExtHeadersSize(ext, lo, hi) ==
    IF lo > hi THEN 0
    ELSE IF lo = hi THEN 2 + StrLen(ext[lo].val)
    ELSE LET mid == (lo + hi) \div 2
             first == ExtHeadersSize(ext, lo, mid)
         IN  first + ExtHeadersSize(ext, mid + 1, hi)

\* the bytes the encoder writes from protocol_id to the last info block,
\* before it pads
UnpaddedArea(item) ==
    8 + StrHeadersSize(item.str_headers, 1) + IntHeadersSize(item.int_headers, 0)
      + ExtHeadersSize(item.int_headers_ext, 1, Len(item.int_headers_ext))

\* the bytes of frame i from protocol_id to the end of the header area
HeaderArea(i) ==
    Slice(th.wire[i], MIN_HEADER_LENGTH,
          Len(th.wire[i]) - MIN_HEADER_LENGTH - Len(th.items[i].payload.v))

\* C12: in every frame the encoder emits, the bytes from protocol_id to the
\* end of the header area are a multiple of 4, at most 3 bytes of padding
\* were added to get there, each of them 0x00, and the header_size field is
\* that byte count divided by 4
C12_PaddingAndHeaderSize ==
    (mode = "tth") =>
        \A i \in 1..Len(th.wire) :
            LET area == HeaderArea(i)
                padding == Len(area) - UnpaddedArea(th.items[i].ttheader)
            IN  /\ Len(area) % 4 = 0
                /\ padding \in 0..3
                /\ \A k \in 1..padding : area[Len(area) - padding + k] = 0
                /\ HeaderSizeField(th.wire[i]) * 4 = Len(area)

\* a frame with a payload whose header area took 2 bytes of padding has
\* been encoded behind another frame
C12_Witness ==
    /\ mode = "tth" /\ th.kind = "frames" /\ Len(th.wire) = 2
    /\ Len(th.items[2].payload.v) = 3
    /\ Len(HeaderArea(2)) - UnpaddedArea(th.items[2].ttheader) = 2
    /\ HeaderSizeField(th.wire[2]) * 4 = Len(HeaderArea(2))

\* a header area that needed no padding, and one that needed 3 bytes
PaddingZeroReached ==
    ~(/\ mode = "tth" /\ Len(th.wire) = 1
      /\ Len(HeaderArea(1)) = UnpaddedArea(th.items[1].ttheader))

PaddingThreeReached ==
    ~(/\ mode = "tth" /\ Len(th.wire) = 1
      /\ Len(HeaderArea(1)) - UnpaddedArea(th.items[1].ttheader) = 3
      /\ Slice(HeaderArea(1), Len(HeaderArea(1)) - 3, 3) = <<0, 0, 0>>)

(***************************************************************************)
(* The TTHeader decoders on buffers that arrive from a peer: th.buf is the *)
(* source buffer, th.more the bytes that have not arrived yet, th.prev the *)
(* buffer as it was before the last decode call and th.last that call's    *)
(* result.  th.case names what the bytes were built to show, th.all is the *)
(* whole input.                                                            *)
(***************************************************************************)
\* the bytes of a frame: total_length, magic, flags, seq_id, header_size,
\* the header area from protocol_id on, the payload
RawFrame(total_length, magic, header_size, area, payload) ==
    to_be_bytes_i32(total_length) \o magic \o <<0, 0>> \o to_be_bytes_i32(42)
        \o to_be_bytes_u16(header_size) \o area \o payload

\* protocol_id, transform count and the info bytes, zero-padded to words
Area(infos) == <<0, 0>> \o infos \o Repeat(0, (4 - ((2 + Len(infos)) % 4)) % 4)

\* a well-formed frame around the info bytes
FrameOf(infos, payload) ==
    RawFrame(10 + Len(Area(infos)) + Len(payload),
             to_be_bytes_u16(TT_HEADER_MAGIC),
             Len(Area(infos)) \div 4, Area(infos), payload)

Case(name, a, b) == [name |-> name, a |-> a, b |-> b]

RawInput(case, codec, buf, more) ==
    [case |-> case, codec |-> codec, buf |-> buf, more |-> more]

Codecs == {"header", "payload"}

\* info bytes of well-formed frames: none, E5's int header, a string
\* header and an ACL token
GoodInfos ==
    { <<>>,
      <<INFO_INT_KEY_VALUE, 0, 1, 0, RPCTimeoutMs, 0, 3, 53, 48, 48>>,
      <<INFO_KEY_VALUE, 0, 1, 0, 1, 107, 0, 2, 118, 119,
        ACL_TOKEN_KEY_VALUE, 0, 1, 116>> }

\* well-formed frames, arriving byte by byte or in larger pieces
ValidInputs ==
    { RawInput(Case("valid", Len(p), 0), c, <<>>, FrameOf(infos, p)) :
        infos \in GoodInfos, p \in Payloads, c \in Codecs }

\* the two bytes at 4..6 that are not the magic 0x1000
BadMagics == { <<0, 0>>, <<16, 1>>, <<0, 16>>, <<17, 0>>, <<128, 1>> }

BadMagicInputs ==
    { RawInput(Case("badmagic", m[1], m[2]), c, <<>>,
               RawFrame(10 + Len(Area(infos)) + Len(p), m,
                        Len(Area(infos)) \div 4, Area(infos), p)) :
        m \in BadMagics, infos \in GoodInfos, p \in {<<>>, <<16, 32>>},
        c \in Codecs }

\* header_size 0, with the total_length that fits it and others
ZeroSizeInputs ==
    { RawInput(Case("hsize0", total, Len(p)), c,
               RawFrame(total, to_be_bytes_u16(TT_HEADER_MAGIC), 0, <<>>, p), <<>>) :
        total \in {0, 10, 14}, p \in {<<>>, <<0, 0, 0, 0>>, <<1, 2, 3, 4, 5, 6, 7, 8>>},
        c \in Codecs }

\* total_length below header_size * 4 + 10, all bytes of the header there
ShortTotalInputs ==
    { RawInput(Case("short_total", total, Len(Area(infos))), c,
               RawFrame(total, to_be_bytes_u16(TT_HEADER_MAGIC),
                        Len(Area(infos)) \div 4, Area(infos), <<>>), <<>>) :
        total \in {0, 9, 10, 13}, infos \in GoodInfos, c \in Codecs }

\* declared string lengths around the cap, and entry counts around theirs
LenSamples ==
    {0, 1, MAX_HEADER_STRING_LENGTH - 1, MAX_HEADER_STRING_LENGTH,
     MAX_HEADER_STRING_LENGTH + 1, 2 * MAX_HEADER_STRING_LENGTH}

CountSamples == {0, 1, MAX_NUM_HEADERS - 1, MAX_NUM_HEADERS, MAX_NUM_HEADERS + 1}

\* the places of a length-prefixed string: 1 a string-KV key, 2 a string-KV
\* value, 3 an int-KV value, 4 the ACL token
Places == 1..4

\* info bytes with a string of n bytes, all present, at the place
InfoWith(place, n) ==
    CASE place = 1 -> <<INFO_KEY_VALUE, 0, 1>> \o to_be_bytes_u16(n)
                        \o Repeat(97, n) \o <<0, 0>>
      [] place = 2 -> <<INFO_KEY_VALUE, 0, 1, 0, 1, 107>> \o to_be_bytes_u16(n)
                        \o Repeat(97, n)
      [] place = 3 -> <<INFO_INT_KEY_VALUE, 0, 1, 0, 5>> \o to_be_bytes_u16(n)
                        \o Repeat(97, n)
      [] place = 4 -> <<ACL_TOKEN_KEY_VALUE>> \o to_be_bytes_u16(n)
                        \o Repeat(97, n)

StrLenInputs ==
    { RawInput(Case("strlen", place, n), c, FrameOf(InfoWith(place, n), <<>>), <<>>) :
        place \in Places, n \in LenSamples, c \in Codecs }

\* count string-KV entries of 6 bytes, the k-th with the 2-byte key k and an
\* empty value
CountedEntries(count) ==
    [i \in 1..(6 * count) |->
        LET k == (i - 1) \div 6 + 1
        IN  CASE (i - 1) % 6 = 1 -> 2
              [] (i - 1) % 6 = 2 -> k \div 256
              [] (i - 1) % 6 = 3 -> k % 256
              [] OTHER -> 0]

CountInputs ==
    { RawInput(Case("count", count, 0), c,
               FrameOf(<<INFO_KEY_VALUE>> \o to_be_bytes_u16(count)
                            \o CountedEntries(count), <<>>), <<>>) :
        count \in CountSamples, c \in Codecs }

\* every byte as an info id, behind 0..MaxLead padding bytes; what follows
\* the id completes an empty KV block or the ACL token "t"
MaxLead == 2

InfoTail(id) == IF id = ACL_TOKEN_KEY_VALUE THEN <<0, 1, 116>> ELSE <<0, 0>>

InfoInputs ==
    { RawInput(Case("info", id, lead), c,
               FrameOf(Repeat(INFO_PADDING, lead) \o <<id>> \o InfoTail(id), <<>>),
               <<>>) :
        id \in Byte, lead \in 0..MaxLead, c \in Codecs }

\* int-KV blocks of up to MaxPairs pairs: keys in the dense table (3, 26)
\* and beyond it (27, 100, 65535), a key twice with different values
MaxPairs == 3

PairSamples ==
    { <<3, <<97>>>>, <<3, <<98, 98>>>>, <<26, <<99>>>>, <<27, <<100>>>>,
      <<100, <<101>>>>, <<100, <<102>>>>, <<65535, <<>>>> }

PairBytes(p) == to_be_bytes_u16(p[1]) \o to_be_bytes_u16(Len(p[2])) \o p[2]

PairRuns ==
    UNION { [1..n -> PairSamples] : n \in 0..MaxPairs }

RECURSIVE RunBytes(_, _)
RunBytes(run, i) ==
    IF i > Len(run) THEN <<>> ELSE PairBytes(run[i]) \o RunBytes(run, i + 1)

IntKvInputs ==
    { RawInput(Case("intkv", Len(run), 0), c, FrameOf(<<INFO_INT_KEY_VALUE>>
                    \o to_be_bytes_u16(Len(run)) \o RunBytes(run, 1), <<>>), <<>>) :
        run \in PairRuns, c \in Codecs }

\* header areas in which a count or a length runs past the end of the area:
\* 1 the string-KV count straddles the end; 2 it lies wholly behind it;
\* 3 a key's bytes, 4 a value's length (behind the end), 5 a value's length
\* (straddling); 6 an int-KV value's length; 7 the same, wholly behind;
\* 8 an int key; 9 the ACL token's length; 10 the token's bytes; 11 the
\* second of two declared entries
OverrunAreas ==
    << <<0, 0, 1, 0>>,
       <<0, 0, 0, 1>>,
       <<0, 0, 1, 0, 1, 0, 2, 107>>,
       <<0, 0, 1, 0, 1, 0, 1, 107>>,
       <<0, 0, 1, 0, 1, 0, 0, 0>>,
       <<0, 0, 16, 0, 1, 0, 5, 0>>,
       <<0, 0, 0, 16, 0, 1, 0, 5>>,
       <<0, 0, 0, 0, 16, 0, 1, 0>>,
       <<0, 0, 17, 0>>,
       <<0, 0, 0, 17, 0, 3, 97, 98>>,
       <<0, 0, 0, 1, 0, 2, 0, 0, 0, 0, 0, 0>> >>

\* header areas whose last block ends with the last byte of the area
FullAreas ==
    << <<0, 0, 0, 17, 0, 2, 97, 98>>,
       <<0, 0, 0, 0, 0, 16, 0, 0>>,
       <<0, 0, 1, 0, 1, 0, 1, 107, 0, 2, 118, 119>> >>

\* the bytes behind the header area: what the cut-off block would go on with
Behind == <<0, 1, 107, 0, 1, 118, 0, 0>>

\* frames around these areas, with the total_length that fits (b = 0) and
\* with total_length 0 (b = 1)
EdgeFrame(area, short) ==
    RawFrame(IF short = 1 THEN 0 ELSE 10 + Len(area) + Len(Behind),
             to_be_bytes_u16(TT_HEADER_MAGIC), Len(area) \div 4, area, Behind)

OverrunInputs ==
    { RawInput(Case("overrun", k, short), c, EdgeFrame(OverrunAreas[k], short), <<>>) :
        k \in DOMAIN OverrunAreas, short \in {0, 1}, c \in Codecs }
    \cup
    { RawInput(Case("full", k, short), c, EdgeFrame(FullAreas[k], short), <<>>) :
        k \in DOMAIN FullAreas, short \in {0, 1}, c \in Codecs }

StartTTDecode(in) ==
    /\ mode = "ttd"
    /\ th = [case |-> in.case, codec |-> in.codec, st |-> "ready",
             buf |-> in.buf, more |-> in.more, all |-> in.buf \o in.more,
             prev |-> <<>>, calls |-> 0, last |-> NoDec,
             out |-> TTHeaderPayload(DefaultTTHeader, <<>>)]
    /\ sk = <<>> /\ stype = 0 /\ skind = "" /\ sstart = 0 /\ svlen = 0
    /\ rd = <<>> /\ ar = <<>> /\ ak = <<>> /\ wr = <<>> /\ wg = <<>>

InitTTDecode ==
    \E in \in ValidInputs \cup BadMagicInputs \cup ZeroSizeInputs
                \cup ShortTotalInputs \cup StrLenInputs \cup CountInputs
                \cup InfoInputs \cup IntKvInputs \cup OverrunInputs :
        StartTTDecode(in)

\* the state after a decode call on th.buf
RawDecoded(dec) ==
    [th EXCEPT
        !.prev = th.buf, !.buf = dec.src, !.calls = @ + 1,
        !.last = [dec |-> dec.dec, kind |-> dec.kind, n |-> dec.n],
        !.out = IF dec.dec = "Some" THEN dec.item ELSE @,
        !.st = dec.dec]

\* TTHeaderDecoder::decode(buf)
RawDecodeHeader ==
    /\ mode = "ttd" /\ th.codec = "header" /\ th.st = "ready"
    /\ \E checks \in BOOLEAN :
        LET dec == TTHeaderDecoder_decode(th.buf, checks)
        IN  th' = RawDecoded([dec EXCEPT !.item = TTHeaderPayload(@, <<>>)])
    /\ UNCHANGED <<mode, skipVars, rd, ar, ak, wr, wg>>

\* TTHeaderPayloadDecoder::decode(buf)
RawDecodeFrame ==
    /\ mode = "ttd" /\ th.codec = "payload" /\ th.st = "ready"
    /\ \E checks \in BOOLEAN :
        th' = RawDecoded(TTHeaderPayloadDecoder_decode(th.buf, checks))
    /\ UNCHANGED <<mode, skipVars, rd, ar, ak, wr, wg>>

\* after InsufficientAtLeast the caller reads from the peer: one byte, the
\* bytes asked for, or all that is left arrives
Arrive ==
    /\ mode \in {"ttd", "fr"}
    /\ th.st = "InsufficientAtLeast" /\ th.more # <<>>
    /\ \E k \in {1, Min(Max(th.last.n - Len(th.buf), 1), Len(th.more)),
                 Len(th.more)} :
        th' = [th EXCEPT !.buf = @ \o Slice(th.more, 0, k),
                         !.more = Slice(@, k, Len(@) - k),
                         !.st = "ready"]
    /\ UNCHANGED <<mode, skipVars, rd, ar, ak, wr, wg>>

NextTTDecode == RawDecodeHeader \/ RawDecodeFrame \/ Arrive

SpecTTDecode == InitTTDecode /\ [][NextTTDecode]_vars

(***************************************************************************)
(* What the decoders answer to buffers from a peer.  RawCalled: a decode call *)
(* has just returned; th.prev is the buffer it was given, th.buf the       *)
(* buffer it left, th.last its answer.                                     *)
(***************************************************************************)
RawCalled == mode = "ttd" /\ th.calls > 0 /\ th.st # "ready"

\* bytes 4..6 of the buffer are there and are not 0x10 0x00
WrongMagic(buf) == Len(buf) >= 6 /\ (buf[5] # 16 \/ buf[6] # 0)

\* C13: a decode call of either TTHeader decoder on at least 14 bytes whose
\* bytes 4..6 are not the magic 0x1000 returns an error (ErrorKind::Other)
\* and leaves the source buffer as it was.
C13_BadMagicRejected ==
    (RawCalled /\ Len(th.prev) >= MIN_HEADER_LENGTH /\ WrongMagic(th.prev))
        => /\ th.last.dec = "Err" /\ th.last.kind = "Other"
           /\ th.buf = th.prev

\* a frame with the bytes 0x10 0x01 at 4..6, wholly buffered, was rejected
\* by the payload decoder
C13_Witness ==
    /\ RawCalled /\ th.codec = "payload" /\ th.case.name = "badmagic"
    /\ Len(th.prev) > MIN_HEADER_LENGTH /\ th.more = <<>>
    /\ th.prev[5] = 16 /\ th.prev[6] = 1
    /\ th.last.dec = "Err" /\ th.buf = th.prev

\* the same for the header decoder, with the bytes 0x00 0x10
BadMagicHeaderRejected ==
    /\ RawCalled /\ th.codec = "header" /\ th.case.name = "badmagic"
    /\ Len(th.prev) >= MIN_HEADER_LENGTH
    /\ th.prev[5] = 0 /\ th.prev[6] = 16
    /\ th.last.dec = "Err" /\ th.buf = th.prev

\* C14: as soon as 6 bytes are buffered and bytes 4..6 are not the magic, a
\* decode call rejects the frame instead of asking for more bytes.
C14_MagicDecidedAtSix ==
    (RawCalled /\ WrongMagic(th.prev)) => th.last.dec = "Err"

\* what the code does: below 14 buffered bytes both decoders ask for 14,
\* whatever the bytes are
AsksForMinHeader ==
    (RawCalled /\ Len(th.prev) < MIN_HEADER_LENGTH)
        => /\ th.last.dec = "InsufficientAtLeast"
           /\ th.last.n = MIN_HEADER_LENGTH
           /\ th.buf = th.prev

\* six bytes with a wrong magic were answered by InsufficientAtLeast(14)
WrongMagicAskedForMore ==
    /\ RawCalled /\ Len(th.prev) = HEADER_DETECT_LENGTH /\ WrongMagic(th.prev)
    /\ th.last.dec = "InsufficientAtLeast" /\ th.last.n = MIN_HEADER_LENGTH

\* the call answered InsufficientAtLeast(n) and left the buffer as it was
AskedFor(n) ==
    /\ th.last.dec = "InsufficientAtLeast" /\ th.last.n = n
    /\ th.buf = th.prev

\* the item a single call on the whole input th.all delivers
WholeItem ==
    IF th.codec = "header"
    THEN TTHeaderPayload(TTHeaderDecoder_decode(th.all, TRUE).item, <<>>)
    ELSE TTHeaderPayloadDecoder_decode(th.all, TRUE).item

\* C15: TTHeaderDecoder.decode returns InsufficientAtLeast(14) below 14
\* buffered bytes and InsufficientAtLeast(14 + header_size * 4) while the
\* declared header area is not wholly buffered; TTHeaderPayloadDecoder.decode
\* returns InsufficientAtLeast(14) below 14 buffered bytes and
\* InsufficientAtLeast(total_length + 4) from 14 bytes on while the whole
\* frame is not buffered.  The buffer is unchanged in all these cases, no
\* byte of the input is lost while the decoder waits, and the call that
\* follows the arrival of the bytes delivers the item of the whole frame.
C15_InsufficientKeepsFrame ==
    /\ RawCalled =>
        LET len == Len(th.prev)
            total == TotalLengthField(th.prev)
            area == HeaderSizeField(th.prev) * 4
            magic == len >= MIN_HEADER_LENGTH /\ ~WrongMagic(th.prev)
        IN  /\ len < MIN_HEADER_LENGTH => AskedFor(MIN_HEADER_LENGTH)
            /\ (magic /\ th.codec = "header" /\ len < MIN_HEADER_LENGTH + area)
                    => AskedFor(MIN_HEADER_LENGTH + area)
            /\ (magic /\ th.codec = "payload" /\ total >= 0 /\ len < total + 4)
                    => AskedFor(total + 4)
            /\ th.last.dec = "InsufficientAtLeast" => th.buf = th.prev
            /\ (th.last.dec = "Some" /\ th.case.name = "valid")
                    => th.out = WholeItem
    /\ (mode = "ttd" /\ th.st \in {"ready", "InsufficientAtLeast"})
            => th.buf \o th.more = th.all

\* the payload decoder asked for 14 bytes, then for the whole frame, and
\* its third call delivered the frame with its payload
C15_Witness ==
    /\ RawCalled /\ th.codec = "payload" /\ th.case.name = "valid"
    /\ th.calls = 3 /\ th.last.dec = "Some"
    /\ Len(th.prev) = TotalLengthField(th.prev) + 4
    /\ th.out.payload.v # <<>> /\ th.out = WholeItem

\* the header decoder asked for the header area of a frame whose first 14
\* bytes were buffered
HeaderAreaAskedFor ==
    /\ RawCalled /\ th.codec = "header" /\ th.case.name = "valid"
    /\ Len(th.prev) = MIN_HEADER_LENGTH
    /\ AskedFor(MIN_HEADER_LENGTH + HeaderSizeField(th.prev) * 4)

\* C15 as stated: TTHeaderPayloadDecoder.decode returns
\* InsufficientAtLeast(total_length + 4) whenever the whole frame is not
\* buffered.
C15_PayloadAsksForFrame ==
    (RawCalled /\ th.codec = "payload" /\ th.case.name = "valid"
        /\ Len(th.prev) < Len(th.all))
        => AskedFor(TotalLengthField(th.all) + 4)

\* the call failed with io::ErrorKind::InvalidData
InvalidDataReturned == th.last.dec = "Err" /\ th.last.kind = "InvalidData"

\* the string of n bytes that InfoWith(place, n) declares, found in the
\* decoded header at its place
StrAtPlace(h, place, n) ==
    LET s == SmolStr(Repeat(97, n))
    IN  CASE place = 1 ->
                h.str_headers = <<[key |-> s, val |-> SmolStr(<<>>)]>>
          [] place = 2 ->
                h.str_headers = <<[key |-> SmolStr(<<107>>), val |-> s]>>
          [] place = 3 -> h.int_headers[5] = Some(s)
          [] place = 4 -> h.acl_token = Some(s)

\* C16: decode_header fails with InvalidData when a string-KV key or value,
\* an int-KV value or the ACL token declares a length above 4096 and when a
\* string-KV block declares more than 1024 entries; a length up to 4096 and
\* a count up to 1024, the bytes being there, are decoded.
C16_HeaderCaps ==
    RawCalled =>
        /\ th.case.name = "strlen" =>
            IF th.case.b > MAX_HEADER_STRING_LENGTH THEN InvalidDataReturned
            ELSE /\ th.last.dec = "Some"
                 /\ StrAtPlace(th.out.ttheader, th.case.a, th.case.b)
        /\ th.case.name = "count" =>
            IF th.case.a > MAX_NUM_HEADERS THEN InvalidDataReturned
            ELSE /\ th.last.dec = "Some"
                 /\ Len(th.out.ttheader.str_headers) = th.case.a

\* a string-KV value of exactly 4096 bytes was decoded
C16_Witness ==
    /\ RawCalled /\ th.case.name = "strlen" /\ th.case.a = 2
    /\ th.case.b = MAX_HEADER_STRING_LENGTH /\ th.last.dec = "Some"
    /\ StrLen(th.out.ttheader.str_headers[1].val) = MAX_HEADER_STRING_LENGTH

\* an ACL token declaring 4097 bytes, all present, was rejected
LongTokenRejected ==
    /\ RawCalled /\ th.case.name = "strlen" /\ th.case.a = 4
    /\ th.case.b = MAX_HEADER_STRING_LENGTH + 1 /\ InvalidDataReturned

\* 1024 string-KV entries were decoded; 1025, all present, were rejected
CountAtCapDecoded ==
    /\ RawCalled /\ th.case.name = "count" /\ th.case.a = MAX_NUM_HEADERS
    /\ th.last.dec = "Some"
    /\ Len(th.out.ttheader.str_headers) = MAX_NUM_HEADERS

CountOverCapRejected ==
    /\ RawCalled /\ th.case.name = "count" /\ th.case.a = MAX_NUM_HEADERS + 1
    /\ InvalidDataReturned

\* C17: a frame whose total_length is below header_size * 4 + 10 is
\* rejected with InvalidData; no payload_length comes from a u32
\* subtraction that went below zero, by wrap-around or by a panic.
C17_ShortTotalRejected ==
    (RawCalled /\ th.case.name = "short_total") => InvalidDataReturned

\* what the code does with such a frame: the subtraction panics in a build
\* with overflow checks, and otherwise the header is delivered with
\* payload_length = total_length - header_size * 4 - 10 modulo 2^32
ShortTotalAsCoded ==
    (RawCalled /\ th.case.name = "short_total")
        => \/ th.last.dec = "panic"
           \/ /\ th.last.dec = "Some"
              /\ th.out.ttheader.payload_length =
                    U32Sub(U32Sub(th.case.a, th.case.b), 10)
              /\ th.out.ttheader.payload_length < 0

\* total_length 0 with a header area of 4 bytes: the panic, and the header
\* with payload_length 2^32 - 14 (the i32 of the same bits is -14)
ShortTotalPanicked ==
    /\ RawCalled /\ th.case.name = "short_total" /\ th.case.a = 0
    /\ th.case.b = 4 /\ th.last.dec = "panic"

ShortTotalWrapped ==
    /\ RawCalled /\ th.case.name = "short_total" /\ th.case.a = 0
    /\ th.case.b = 4 /\ th.last.dec = "Some"
    /\ th.out.ttheader.payload_length = -14

\* the frame's header_size field is 0 and the call went past the decoder's
\* own length checks
ZeroHeaderSizeDecoded ==
    /\ RawCalled /\ Len(th.prev) >= MIN_HEADER_LENGTH /\ ~WrongMagic(th.prev)
    /\ HeaderSizeField(th.prev) = 0
    /\ \/ th.codec = "header"
       \/ /\ TotalLengthField(th.prev) >= 0
          /\ Len(th.prev) >= TotalLengthField(th.prev) + 4

\* C18: a frame whose header_size field is 0 is rejected with InvalidData
\* by TTHeaderDecoder and by TTHeaderPayloadDecoder.
C18_ZeroHeaderSizeRejected ==
    ZeroHeaderSizeDecoded => InvalidDataReturned

\* the payload decoder rejected a frame with header_size 0 and
\* total_length 10, the length that fits it
C18_Witness ==
    /\ ZeroHeaderSizeDecoded /\ th.codec = "payload"
    /\ TotalLengthField(th.prev) = 10 /\ Len(th.prev) = MIN_HEADER_LENGTH
    /\ InvalidDataReturned

\* the header decoder rejected one with total_length 0, before the
\* subtraction of C17
ZeroSizeRejectedFirst ==
    /\ ZeroHeaderSizeDecoded /\ th.codec = "header"
    /\ TotalLengthField(th.prev) = 0 /\ InvalidDataReturned

\* the info ids decode_header knows
KnownInfoIds ==
    {INFO_PADDING, INFO_KEY_VALUE, INFO_INT_KEY_VALUE, ACL_TOKEN_KEY_VALUE}

\* C19: an info id other than 0x00, 0x01, 0x10 and 0x11 makes decoding fail
\* with InvalidData; a 0x00 byte takes one byte, and the walk goes on with
\* the info id behind it (the ACL token behind 0, 1 and 2 padding bytes is
\* decoded, empty KV blocks behind them leave the header empty).
C19_InfoIds ==
    (RawCalled /\ th.case.name = "info") =>
        IF th.case.a \notin KnownInfoIds THEN InvalidDataReturned
        ELSE /\ th.last.dec = "Some"
             /\ th.out.ttheader.acl_token =
                    IF th.case.a = ACL_TOKEN_KEY_VALUE
                    THEN Some(SmolStr(<<116>>)) ELSE None
             /\ th.out.ttheader.str_headers = <<>>
             /\ th.out.ttheader.int_headers_ext = <<>>

\* the ACL token behind two padding bytes was decoded
C19_Witness ==
    /\ RawCalled /\ th.case.name = "info" /\ th.case.a = ACL_TOKEN_KEY_VALUE
    /\ th.case.b = 2 /\ th.last.dec = "Some"
    /\ th.out.ttheader.acl_token = Some(SmolStr(<<116>>))

\* the info id 0x02 behind a padding byte was rejected
UnknownInfoRejected ==
    /\ RawCalled /\ th.case.name = "info" /\ th.case.a = 2 /\ th.case.b = 1
    /\ InvalidDataReturned

(***************************************************************************)
(* FramedHeader (codec/framed.rs): a 4-byte big-endian signed length, then *)
(* that many body bytes for the inner decoder.  The inner decoders are the *)
(* two of this crate that take a body: RawPayloadCodec ("raw") and         *)
(* TTHeaderDecoder ("ttheader").                                           *)
(***************************************************************************)
InnerDecoders == {"raw", "ttheader"}

\* self.inner.decode(&mut body); the item is given as a TTHeaderPayload:
\* the bytes of the raw codec, the header of the TTHeader decoder
InnerDecode(inner, body, checks) ==
    LET raw == RawPayloadCodec_decode(body)
        head == TTHeaderDecoder_decode(body, checks)
    IN  IF inner = "raw"
        THEN [raw EXCEPT !.item = TTHeaderPayload(DefaultTTHeader, @)]
        ELSE [head EXCEPT !.item = TTHeaderPayload(@, <<>>)]

\* if length <= 0
body_size_illegal_NegativeOnly(length) == length < 0

body_size_illegal(length) == length <= 0

\* if src.len() < length + 4, length a usize below 2^31
body_missing(len, length) == len - 4 < length

\* src.advance(4); let mut body = src.split_to(length): the body and what
\* stays in src
advance_split_to_NoAdvance(src, length) ==
    [body |-> Slice(src, 0, length),
     src |-> Slice(src, length, Len(src) - length)]

advance_split_to(src, length) ==
    [body |-> Slice(src, 4, length),
     src |-> Slice(src, 4 + length, Len(src) - 4 - length)]

\* the outcome of FramedHeader::decode once the length word and the inner
\* decoder's outcome `in` on the body are known
body_decoded(src, length, none, in) ==
    IF Len(src) < 4
    THEN Dec("InsufficientAtLeast", "", 4, none, src)
    ELSE IF body_size_illegal(length)
    THEN Dec("Err", "Other", 0, none, src)
    ELSE IF body_missing(Len(src), length)
    THEN Dec("InsufficientAtLeast", "",
             IF length > MaxI32 - 4 THEN MaxI32 ELSE length + 4, none, src)
    ELSE Dec(in.dec, in.kind, in.n, in.item, advance_split_to(src, length).src)

\* FramedHeader::decode(src).  The body is split off the source before the
\* inner decoder runs, so the source loses 4 + length bytes whatever the
\* inner decoder answers.  n is a usize; the model keeps it to 2^31 - 1.
FramedHeader_decode(inner, src, checks) ==
    body_decoded(src, from_be_bytes_i32(Slice(src, 0, 4)),
                 TTHeaderPayload(DefaultTTHeader, <<>>),
                 InnerDecode(inner,
                     advance_split_to(src, from_be_bytes_i32(Slice(src, 0, 4))).body,
                     checks))

\* bodies: three bytes, E1's ping message, a TTHeader frame with an empty
\* header area, and the same frame with the magic 0x0000
PingBody ==
    <<128, 1, 0, 1, 0, 0, 0, 4, 112, 105, 110, 103, 0, 0, 0, 1, 0>>

FramedBodies ==
    { <<1, 2, 3>>, PingBody, FrameOf(<<>>, <<>>),
      RawFrame(14, <<0, 0>>, 1, <<0, 0, 0, 0>>, <<>>) }

\* what follows a frame in the buffer: nothing, or the frame of one byte
FramedTrails == { <<>>, <<0, 0, 0, 1, 9>> }

\* length prefixes that are no body size
IllegalSizes == {0, -1, -256, MinI32}

\* length prefixes above the bytes that follow a body of n bytes
BeyondSizes(n) == {n + 1, n + 4, 65536, MaxI32 - 4}

FramedInput(case, inner, length, bytes) ==
    [case |-> case, inner |-> inner, buf |-> <<>>,
     more |-> to_be_bytes_i32(length) \o bytes]

\* whole frames with and without a following frame, illegal sizes, and
\* sizes the peer never fills, all arriving in pieces
FramedInputs ==
    { FramedInput(Case("whole", Len(b), Len(t)), i, Len(b), b \o t) :
        b \in FramedBodies, t \in FramedTrails, i \in InnerDecoders }
    \cup { FramedInput(Case("illegal", l, Len(b)), i, l, b) :
            l \in IllegalSizes, b \in FramedBodies, i \in InnerDecoders }
    \cup UNION { { FramedInput(Case("beyond", l, Len(b)), i, l, b) :
                    l \in BeyondSizes(Len(b)), i \in InnerDecoders } :
                 b \in FramedBodies }

\* a frame: the length of the body, then the body
Framed(body) == to_be_bytes_i32(Len(body)) \o body

\* bodies that differ in length and in content
RunBodies == { <<9>>, <<1, 2, 3>>, <<0, 0, 0, 1, 9>>, PingBody }

\* two and three frames one behind the other, and what is left of a
\* fourth
FramedRuns ==
    { [case |-> Case("run", Len(a), Len(b)), inner |-> "raw", buf |-> <<>>,
       more |-> Framed(a) \o Framed(b) \o t] :
        a \in RunBodies, b \in RunBodies, t \in {<<>>, <<0, 0>>} }
    \cup { [case |-> Case("run3", Len(a), Len(b)), inner |-> "raw",
            buf |-> <<>>,
            more |-> Framed(a) \o Framed(b) \o Framed(a)] :
            a \in RunBodies, b \in RunBodies }

StartFramed(in) ==
    /\ mode = "fr"
    /\ th = [case |-> in.case, inner |-> in.inner, st |-> "ready",
             buf |-> in.buf, more |-> in.more, all |-> in.buf \o in.more,
             prev |-> <<>>, calls |-> 0, last |-> NoDec,
             out |-> TTHeaderPayload(DefaultTTHeader, <<>>), outs |-> <<>>]
    /\ sk = <<>> /\ stype = 0 /\ skind = "" /\ sstart = 0 /\ svlen = 0
    /\ rd = <<>> /\ ar = <<>> /\ ak = <<>> /\ wr = <<>> /\ wg = <<>>

InitFramed == \E in \in FramedInputs \cup FramedRuns : StartFramed(in)

\* the state after a FramedHeader::decode call; outs: the items
\* delivered so far
FramedDecoded(dec) ==
    [RawDecoded(dec) EXCEPT
        !.outs = IF dec.dec = "Some" THEN Append(@, dec.item) ELSE @]

\* FramedHeader::decode(buf)
FramedDecode ==
    /\ mode = "fr" /\ th.st = "ready"
    /\ \E checks \in BOOLEAN :
        th' = FramedDecoded(FramedHeader_decode(th.inner, th.buf, checks))
    /\ UNCHANGED <<mode, skipVars, rd, ar, ak, wr, wg>>

\* the caller takes the item and calls decode again
FramedAgain ==
    /\ mode = "fr" /\ th.st = "Some"
    /\ th' = [th EXCEPT !.st = "ready"]
    /\ UNCHANGED <<mode, skipVars, rd, ar, ak, wr, wg>>

NextFramed == FramedDecode \/ Arrive \/ FramedAgain

SpecFramed == InitFramed /\ [][NextFramed]_vars

\* a FramedHeader::decode call has just returned
FramedCalled == mode = "fr" /\ th.calls > 0 /\ th.st # "ready"

\* C20: FramedHeader.decode leaves the source buffer unchanged whenever it
\* returns without calling the inner decoder: below 4 buffered bytes it
\* returns InsufficientAtLeast(4); with a length prefix L <= 0 it returns an
\* error; with L > 0 and fewer than 4 + L bytes buffered it returns
\* InsufficientAtLeast(4 + L).  With 4 + L bytes buffered it takes them off
\* the source, whatever the inner decoder answers.
C20_FramedKeepsBuffer ==
    FramedCalled =>
        LET len == Len(th.prev)
            L == TotalLengthField(th.prev)
        IN  /\ len < 4 => AskedFor(4)
            /\ (len >= 4 /\ L <= 0)
                    => /\ th.last.dec = "Err" /\ th.last.kind = "Other"
                       /\ th.buf = th.prev
            /\ (len >= 4 /\ L > 0 /\ len - 4 < L) => AskedFor(L + 4)
            /\ (len >= 4 /\ L > 0 /\ len - 4 >= L)
                    => th.buf = Slice(th.prev, 4 + L, len - 4 - L)

\* the prefix 17 was buffered with a part of the ping message: the call
\* asked for 21 bytes and left the buffer as it was
C20_Witness ==
    /\ FramedCalled /\ Len(th.prev) > 4 /\ Len(th.prev) < 21
    /\ TotalLengthField(th.prev) = 17 /\ th.calls >= 2
    /\ AskedFor(21)

\* the prefixes 0 and -2^31 were rejected with the buffer unchanged
ZeroSizeRejected ==
    /\ FramedCalled /\ Len(th.prev) >= 4 /\ TotalLengthField(th.prev) = 0
    /\ th.last.dec = "Err" /\ th.buf = th.prev

MinSizeRejected ==
    /\ FramedCalled /\ Len(th.prev) >= 4
    /\ TotalLengthField(th.prev) = MinI32
    /\ th.last.dec = "Err" /\ th.buf = th.prev

\* C20 as stated: the source buffer is unchanged whenever the call does
\* not deliver a frame.
C20_UnchangedUnlessDelivered ==
    (FramedCalled /\ th.last.dec # "Some") => th.buf = th.prev

\* a whole frame of 3 body bytes was taken off the source and the TTHeader
\* decoder inside asked for 14 bytes
InnerAskedAfterSplit ==
    /\ FramedCalled /\ th.inner = "ttheader" /\ th.case.name = "whole"
    /\ th.case.a = 3 /\ th.last.dec = "InsufficientAtLeast"
    /\ th.last.n = MIN_HEADER_LENGTH
    /\ Len(th.buf) = Len(th.prev) - 7

\* a whole frame was taken off the source and the inner decoder rejected it
InnerRejectedAfterSplit ==
    /\ FramedCalled /\ th.inner = "ttheader" /\ th.case.name = "whole"
    /\ th.last.dec = "Err" /\ Len(th.buf) < Len(th.prev)

\* the frames of the bodies outs[i..], one behind the other
RECURSIVE DeliveredFrames(_, _)
DeliveredFrames(outs, i) ==
    IF i > Len(outs) THEN <<>>
    ELSE Framed(outs[i].payload.v) \o DeliveredFrames(outs, i + 1)

\* the call had a whole frame in the buffer: a length prefix L > 0 and at
\* least 4 + L bytes
WholeFrameBuffered ==
    /\ FramedCalled /\ Len(th.prev) >= 4
    /\ TotalLengthField(th.prev) > 0
    /\ Len(th.prev) - 4 >= TotalLengthField(th.prev)

\* C21: with at least 4 + L bytes buffered, FramedHeader.decode takes
\* exactly 4 + L bytes off the source, gives the inner decoder exactly the
\* L body bytes and leaves the bytes behind them in place; repeated calls
\* on concatenated frames deliver their bodies one per call in wire order
\* (the frames of the bodies delivered, followed by the bytes still
\* buffered or to come, are the input).
C21_FramedDeliversBodies ==
    /\ WholeFrameBuffered =>
        LET L == TotalLengthField(th.prev)
            body == Slice(th.prev, 4, L)
            inner == TTHeaderDecoder_decode(body, TRUE)
        IN  /\ th.buf = Slice(th.prev, 4 + L, Len(th.prev) - 4 - L)
            /\ th.inner = "raw"
                => /\ th.last.dec = "Some" /\ th.out.payload.v = body
                   /\ th.outs[Len(th.outs)].payload.v = body
            /\ th.inner = "ttheader"
                => /\ th.last.dec = inner.dec /\ th.last.n = inner.n
                   /\ inner.dec = "Some" => th.out.ttheader = inner.item
    /\ (mode = "fr" /\ th.inner = "raw")
        => /\ DeliveredFrames(th.outs, 1) \o th.buf \o th.more = th.all
           /\ th.st = "Some" => Len(th.outs) > 0

\* three frames with the bodies a, b, a (a and b of different lengths)
\* were delivered by three calls, in that order
C21_Witness ==
    /\ FramedCalled /\ th.case.name = "run3" /\ th.case.a # th.case.b
    /\ Len(th.outs) = 3 /\ th.buf = <<>> /\ th.more = <<>>
    /\ Len(th.outs[1].payload.v) = th.case.a
    /\ Len(th.outs[2].payload.v) = th.case.b
    /\ th.outs[3] = th.outs[1]

\* the same with all three frames in the buffer before the first of the
\* three calls
ThreeFramesFromOneBuffer ==
    /\ C21_Witness /\ th.calls = 4

\* the first frame was delivered before the second had arrived
FrameDeliveredBeforeNext ==
    /\ FramedCalled /\ th.case.name = "run" /\ Len(th.outs) = 1
    /\ th.last.dec = "Some" /\ th.buf = <<>> /\ th.more # <<>>

(***************************************************************************)
(* FramedHeader::encode (codec/framed.rs): a 4-byte placeholder, the inner *)
(* encoder's bytes, then the length written over the placeholder.  The     *)
(* inner encoders are RawPayloadCodec ("raw", item.payload) and            *)
(* TTHeaderEncoder ("ttheader", item.ttheader).                            *)
(***************************************************************************)
\* self.inner.encode(item, dst): [st, dst, len, bm]
InnerEncode(inner, item, dst, bm, checks, unique) ==
    IF inner = "raw"
    THEN RawPayloadCodec_encode(item.payload.v, dst, bm, unique)
    ELSE TTHeaderEncoder_encode(item.ttheader, dst, bm, checks, unique)

\* let len = (dst.len() - offset - 4) as i32, dst.len() below 2^31
framed_len_NoOffset(dst_len, offset) == dst_len - 4

framed_len(dst_len, offset) == dst_len - offset - 4

\* len_data.as_ptr().copy_to_nonoverlapping(dst.as_mut_ptr().add(offset), 4)
copy_len_at(dst, offset, len) ==
    Slice(dst, 0, offset) \o to_be_bytes_i32(len)
        \o Slice(dst, offset + 4, Len(dst) - offset - 4)

\* FramedHeader::encode(item, dst), bm the BytesMut of dst: [st, dst, len,
\* bm]; the inner encoder's failure is returned as it is, the placeholder
\* in place
length_placed(offset, enc) ==
    IF enc.st # "Ok" THEN enc
    ELSE [enc EXCEPT !.dst = copy_len_at(enc.dst, offset,
                                         framed_len(Len(enc.dst), offset))]

FramedHeader_encode(inner, item, dst, bm, checks, unique) ==
    length_placed(Len(dst),
        InnerEncode(inner, item, dst \o to_be_bytes_i32(0),
                    room_put(Dst(Len(dst), bm), 4, unique).bm, checks, unique))

\* the calls made on one destination
MaxEncodes == 2

\* items: bodies of 0, 1, 3, 5 and 17 bytes for the raw codec, headers for
\* the TTHeader encoder, two of them ending where its reserve does
EncodeItems(inner) ==
    IF inner = "raw"
    THEN { TTHeaderPayload(DefaultTTHeader, b) : b \in RunBodies \cup {<<>>} }
    ELSE { TTHeaderPayload(h, <<>>) :
            h \in {ScenarioE5, DefaultTTHeader,
                   Header(0, U16Max, -1, 5, <<>>, IntHeaders({})),
                   RoomHeader(4069), RoomHeader(4070)} }

\* what the destination holds before the first call
Destinations == { <<>>, <<7>>, <<0, 0, 0, 1, 9>>, <<255, 255, 255, 255, 0, 0>> }

\* the BytesMut of a destination made by BytesMut::new() and
\* extend_from_slice(dst)
Holding(dst) == room_put(Dst(0, BytesMut_new), Len(dst), TRUE).bm

StartEncode(inner, dst, bm) ==
    /\ mode = "fe"
    /\ th = [inner |-> inner, st |-> "ready", dst |-> dst, prev |-> dst,
             len |-> Len(dst), bm |-> bm,
             item |-> TTHeaderPayload(DefaultTTHeader, <<>>), calls |-> 0,
             back |-> NoDec, left |-> <<>>]
    /\ sk = <<>> /\ stype = 0 /\ skind = "" /\ sstart = 0 /\ svlen = 0
    /\ rd = <<>> /\ ar = <<>> /\ ak = <<>> /\ wr = <<>> /\ wg = <<>>

InitEncode ==
    \E inner \in InnerDecoders :
        \/ \E dst \in Destinations : StartEncode(inner, dst, Holding(dst))
        \/ StartEncode(inner, <<>>, BytesMut_with_capacity(LargeCapacity))

\* the state after FramedHeader::encode(item, th.dst)
FramedEncoded(item, enc) ==
    [th EXCEPT !.prev = th.dst, !.dst = enc.dst, !.len = enc.len,
               !.bm = enc.bm, !.item = item, !.calls = @ + 1, !.st = enc.st]

\* FramedHeader::encode(item, dst)
FramedEncode ==
    /\ mode = "fe" /\ th.st \in {"ready", "Ok"} /\ th.calls < MaxEncodes
    /\ \E item \in EncodeItems(th.inner), checks \in BOOLEAN,
          unique \in BOOLEAN :
        th' = FramedEncoded(item, FramedHeader_encode(th.inner, item, th.dst,
                                                      th.bm, checks, unique))
    /\ UNCHANGED <<mode, skipVars, rd, ar, ak, wr, wg>>

\* FramedHeader::decode on the frame the last call appended: back is its
\* answer with the item, left the source after the call
FramedDecodedBack(dec) ==
    [th EXCEPT !.st = "decoded", !.left = dec.src,
               !.back = [dec |-> dec.dec, kind |-> dec.kind,
                         n |-> dec.n, item |-> dec.item]]

FramedDecodeBack ==
    /\ mode = "fe" /\ th.st = "Ok" /\ th.calls > 0
    /\ \E checks \in BOOLEAN :
        th' = FramedDecodedBack(FramedHeader_decode(th.inner,
                    Slice(th.dst, Len(th.prev), Len(th.dst) - Len(th.prev)),
                    checks))
    /\ UNCHANGED <<mode, skipVars, rd, ar, ak, wr, wg>>

NextEncode == FramedEncode \/ FramedDecodeBack

SpecEncode == InitEncode /\ [][NextEncode]_vars

\* the bytes the inner encoder appends for the item
InnerBytes ==
    IF th.inner = "raw" THEN th.item.payload.v
    ELSE TTHeaderEncoder_encode(th.item.ttheader, <<>>,
                                BytesMut_with_capacity(LargeCapacity),
                                FALSE, TRUE).dst

\* C22: FramedHeader.encode appends a 4-byte prefix and the inner encoder's
\* bytes; after Ok the prefix is the big-endian signed 32-bit count of the
\* bytes the inner encoder appended, and the bytes that were in the
\* destination before the call are unchanged, empty or not.
C22_FramedEncode ==
    (mode = "fe" /\ th.calls > 0 /\ th.st = "Ok")
        => th.dst = th.prev \o to_be_bytes_i32(Len(InnerBytes)) \o InnerBytes

\* E1: the ping message into an empty destination is 00 00 00 11 and the
\* 17 body bytes
C22_Witness ==
    /\ mode = "fe" /\ th.calls = 1 /\ th.st = "Ok" /\ th.prev = <<>>
    /\ th.dst = <<0, 0, 0, 17>> \o PingBody

\* the ping message behind an earlier frame of the same destination
PingBehindFrame ==
    /\ mode = "fe" /\ th.calls = 2 /\ th.st = "Ok"
    /\ Len(th.prev) > 6
    /\ th.dst = th.prev \o <<0, 0, 0, 17>> \o PingBody

\* a TTHeader behind bytes that were in the destination before
HeaderFramedBehindBytes ==
    /\ mode = "fe" /\ th.inner = "ttheader" /\ th.st = "Ok"
    /\ th.prev = <<7>> /\ Len(th.dst) > 19
    /\ Slice(th.dst, 0, 5) = <<7, 0, 0, 0, Len(th.dst) - 5>>

\* the destination of the calls: its length is within its capacity, and
\* that of its bytes unless the call panicked
FramedWithinCapacity ==
    (mode = "fe") =>
        /\ th.len <= th.bm.cap
        /\ (th.st # "panic") => th.len = Len(th.dst)

\* what the code does when the inner encoder panics: the placeholder of
\* the frame is in the destination, and the TTHeader encoder has stopped
\* at the int KV count with fewer than 2 bytes of capacity left
FramedPanicAsCoded ==
    (mode = "fe" /\ th.st = "panic") =>
        /\ th.inner = "ttheader"
        /\ th.dst = th.prev \o to_be_bytes_i32(0)
        /\ th.len = CountPlace(th.item.ttheader, Len(th.dst))
        /\ th.bm.cap - th.len < 2

\* the header of 4070 bytes into BytesMut::new(): 4 bytes of placeholder,
\* a reserve to 4100 bytes, 4099 written, the call has panicked
FramedHeaderPanicked ==
    /\ mode = "fe" /\ th.st = "panic" /\ th.prev = <<>>
    /\ th.item.ttheader = RoomHeader(4070)
    /\ th.len = 4099 /\ th.bm.cap = 4100

\* the same header behind an earlier frame, and into
\* BytesMut::with_capacity(65536)
FramedHeaderBehindFrame ==
    /\ mode = "fe" /\ th.st = "Ok" /\ th.calls = 2 /\ Len(th.prev) = 34
    /\ th.item.ttheader = RoomHeader(4070)
    /\ th.bm.cap = 2 * 4100 /\ Len(th.dst) = 34 + 4 + 4098

FramedHeaderInLargeBuffer ==
    /\ mode = "fe" /\ th.st = "Ok" /\ th.calls = 1
    /\ th.item.ttheader = RoomHeader(4070)
    /\ th.bm.cap = LargeCapacity /\ Len(th.dst) = 4 + 4098

(***************************************************************************)
(* The synchronous reader on declared lengths and counts from a peer       *)
(***************************************************************************)
\* a read_bytes or read_string call on a declared length has returned
LengthRead ==
    /\ mode = "read" /\ rd.kind = "length" /\ rd.st # "running"
    /\ rd.last.op \in {"bytes", "string"}

\* the cursor position behind the length field of that call
AfterLength == rd.last.pos + 4

\* C23: read_bytes and read_string fail with InvalidData when the declared
\* length is negative or exceeds the bytes that remain behind the length
\* field; the call returns no view beyond the input and does not move the
\* cursor back.
C23_ReadBytesLengthChecked ==
    LengthRead =>
        /\ (rd.args[1] < 0 \/ rd.args[1] > Len(rd.buf) - AfterLength)
                => rd.st = "InvalidData"
        /\ rd.st \notin {"panic", "UB"}
        /\ rd.pos >= AfterLength

\* what read_bytes does: a length within the remaining bytes returns them;
\* a positive length beyond them and a negative length below -pos fail
\* with InvalidData; a negative length from -pos to -1 overflows pos + len,
\* which panics or wraps to a position before the length's end
ReadBytesAsCoded ==
    LengthRead =>
        LET len == rd.args[1] IN
        IF len >= 0 /\ len <= Len(rd.buf) - AfterLength
        THEN /\ rd.st = "done" /\ rd.pos = AfterLength + len
             /\ rd.out[Len(rd.out)] = Slice(rd.buf, AfterLength, len)
        ELSE IF len > 0 \/ AfterLength + len < 0
        THEN rd.st = "InvalidData" /\ rd.pos = AfterLength
        ELSE \/ rd.st = "panic" /\ rd.pos = AfterLength
             \/ rd.st = "UB" /\ rd.pos = AfterLength + len

\* the length -1 at the start of the buffer: the panic, and the cursor set
\* back to 3 with a view of 2^64 - 1 bytes
NegativeLengthPanics ==
    /\ LengthRead /\ rd.args[1] = -1 /\ rd.last.pos = 0 /\ rd.st = "panic"

NegativeLengthWraps ==
    /\ LengthRead /\ rd.args[1] = -1 /\ rd.last.pos = 0 /\ rd.st = "UB"
    /\ rd.pos = 3

\* the length -12 behind an i64 set the cursor back to the start
CursorSetBackToStart ==
    /\ LengthRead /\ rd.args[1] = -12 /\ rd.last.pos = 8 /\ rd.st = "UB"
    /\ rd.pos = 0

\* a read_list_begin, read_set_begin or read_map_begin call on a complete
\* container header has returned
CountRead == mode = "read" /\ rd.kind = "count" /\ rd.st # "running"

\* C24: read_list_begin, read_set_begin and read_map_begin fail with
\* InvalidData when the declared count is negative.
C24_NegativeCountRejected ==
    (CountRead /\ rd.args[1] < 0) => rd.st = "InvalidData"

\* what the code does: every count is returned, the negative ones as
\* `size as usize` (2^64 + size, kept here as the i32 that was read)
CountAsCoded ==
    CountRead => /\ rd.st = "done" /\ rd.pos = Len(rd.buf)
                 /\ rd.out[1].size = rd.args[1]

\* the count -1 came back from read_map_begin as the identifier's size
NegativeCountReturned ==
    /\ CountRead /\ rd.last.op = "map_begin" /\ rd.args[1] = -1
    /\ rd.st = "done" /\ rd.out[1].size = -1

(***************************************************************************)
(* Primitive reads on a buffer that ends inside the value                  *)
(***************************************************************************)
PrimitiveReads == {"byte", "bool", "i8", "i16", "i32", "i64", "double", "uuid"}

\* the number of bytes a primitive read takes (binary.rs, read_byte .. read_uuid)
WidthOf(op) ==
    CASE op \in {"byte", "bool", "i8"} -> 1
      [] op = "i16" -> 2
      [] op = "i32" -> 4
      [] op \in {"i64", "double"} -> 8
      [] op = "uuid" -> 16

\* the last call was a primitive read that found fewer bytes than its width
ShortPrimitiveRead ==
    /\ mode = "read" /\ rd.st # "running"
    /\ rd.last.op \in PrimitiveReads
    /\ Len(rd.buf) - rd.last.pos < WidthOf(rd.last.op)

\* C25: a synchronous primitive read (read_byte, read_bool, read_i8,
\* read_i16, read_i32, read_i64, read_double, read_uuid) on a buffer with
\* fewer remaining bytes than the width of the value fails with InvalidData.
C25_ShortReadInvalidData ==
    ShortPrimitiveRead => rd.st = "InvalidData"

\* what the code does: the io::Error of the cursor goes through
\* From<io::Error> and the call fails with kind IOError (UnexpectedEof)
ShortReadAsCoded ==
    ShortPrimitiveRead => /\ rd.st = "IOError" /\ rd.msg = "UnexpectedEof"
                          /\ rd.pos = Len(rd.buf)

\* read_i32 on three bytes failed with IOError
ShortI32IsIOError ==
    /\ ShortPrimitiveRead /\ rd.last.op = "i32" /\ rd.last.pos = 0
    /\ Len(rd.buf) = 3 /\ rd.st = "IOError"

\* every primitive read was tried on a short buffer
ShortUuidIsIOError ==
    /\ ShortPrimitiveRead /\ rd.last.op = "uuid" /\ rd.st = "IOError"
ShortDoubleIsIOError ==
    /\ ShortPrimitiveRead /\ rd.last.op = "double" /\ rd.st = "IOError"
ShortBoolIsIOError ==
    /\ ShortPrimitiveRead /\ rd.last.op = "bool" /\ rd.st = "IOError"

(***************************************************************************)
(* The bytes a container begin appends                                     *)
(***************************************************************************)
\* the last call was a begin of a container of the kind
BeginCalled(kind) ==
    mode = "write" /\ wr.st = "Ok" /\ wg.last.op = "begin" /\ wg.last.kind = kind

\* the type bytes a begin of the kind writes before the count
TypeBytes(kind) ==
    LET id == BeginIdent(kind) IN
    IF kind = "map" THEN <<id.key_type, id.value_type>> ELSE <<id.element_type>>

\* the begin appended the type bytes and four bytes `count`, and pushed the
\* offset of the four bytes
BeginAppended(kind, count) ==
    LET prev == wg.last.prev
        at == Len(prev) + Len(TypeBytes(kind))
    IN  /\ wr.trans = prev \o TypeBytes(kind) \o count
        /\ wr.att # <<>> /\ wr.att[Len(wr.att)] = at
        /\ Len(wr.att) = Len(wg.last.open) + 1

\* C26: write_list_begin and write_set_begin emit one type byte, push the
\* current buffer offset on the backpatch stack and then emit four zero
\* bytes as the placeholder; write_map_begin does the same after the key-type
\* and value-type bytes.  The four bytes are zero whatever size the
\* identifier carries.
C26_PlaceholderZero ==
    \A kind \in ContainerKinds :
        BeginCalled(kind) => BeginAppended(kind, <<0, 0, 0, 0>>)

\* what the code does: the four bytes are the identifier's size
BeginAsCoded ==
    \A kind \in ContainerKinds :
        BeginCalled(kind) =>
            BeginAppended(kind, to_be_bytes_i32(BeginIdent(kind).size))

\* write_list_begin with size 7 left 08 00 00 00 07 in the buffer
PlaceholderIsSize ==
    /\ BeginCalled("list") /\ wg.last.prev = <<>>
    /\ wr.trans = <<T_I32, 0, 0, 0, 7>> /\ wr.att = <<1>>

(***************************************************************************)
(* The frames of the skip stack against the nesting of the value           *)
(***************************************************************************)
RECURSIVE NestingAt(_, _, _)
RECURSIVE NestingElems(_, _, _, _, _, _)
RECURSIVE NestingFields(_, _, _)

\* the nesting depth of the well-formed encoding of a value of type t that
\* starts at pos, and the place where it ends: a scalar has depth 0, a
\* struct or container one more than the deepest of its fields or elements
NestingAt(buf, pos, t) ==
    CASE t = T_Binary ->
            [d |-> 0, pos |-> pos + 4 + from_be_bytes_i32(Slice(buf, pos, 4))]
      [] t = T_Struct ->
            LET in == NestingFields(buf, pos, 0) IN [d |-> in.d + 1, pos |-> in.pos]
      [] t \in {T_List, T_Set} ->
            LET in == NestingElems(buf, pos + 5, from_be_bytes_i32(Slice(buf, pos + 1, 4)),
                                   buf[pos + 1], buf[pos + 1], 0)
            IN  [d |-> in.d + 1, pos |-> in.pos]
      [] t = T_Map ->
            LET in == NestingElems(buf, pos + 6,
                                   2 * from_be_bytes_i32(Slice(buf, pos + 2, 4)),
                                   buf[pos + 1], buf[pos + 2], 0)
            IN  [d |-> in.d + 1, pos |-> in.pos]
      [] OTHER -> [d |-> 0, pos |-> pos + BINARY_BASIC_TYPE_FIXED_SIZE[t]]

\* `count` values whose types alternate t0, t1; deepest is the deepest so far
NestingElems(buf, pos, count, t0, t1, deepest) ==
    IF count = 0 THEN [d |-> deepest, pos |-> pos]
    ELSE LET e == NestingAt(buf, pos, t0) IN
         NestingElems(buf, e.pos, count - 1, t1, t0, Max(deepest, e.d))

\* the fields up to the stop byte
NestingFields(buf, pos, deepest) ==
    IF buf[pos + 1] = T_Stop THEN [d |-> deepest, pos |-> pos + 1]
    ELSE LET e == NestingAt(buf, pos + 3, buf[pos + 1]) IN
         NestingFields(buf, e.pos, Max(deepest, e.d))

\* the run skips a well-formed encoding
ValidSkip == mode = "skip" /\ skind = "valid"

NestingDepth == NestingAt(sk.buf, sstart, stype).d

\* C27: during synchronous skip_field on a valid encoding with nesting
\* depth d, the work stack never holds more than d frames: every struct or
\* container level contributes at most one frame, whatever its number of
\* fields or elements.
C27_StackWithinDepth ==
    ValidSkip => Len(sk.stack) <= NestingDepth

\* a list of two lists of two binaries (depth 2) is being skipped: the
\* second binary of the second inner list is current, two frames on the stack
C27_Witness ==
    /\ ValidSkip /\ sk.res = "running" /\ stype = T_List
    /\ NestingDepth = 2 /\ Len(sk.stack) = 2
    /\ Slice(sk.buf, sstart, svlen) =
          Encode(VList(T_List, Repeat(VList(T_Binary, Repeat(VBin(1), 2)), 2)))
    /\ sk.cur = Other(T_Binary)
    /\ sk.stack[1].len = 0 /\ sk.stack[2].len = 0

\* the measure agrees with the end of the value
NestingEndsWithValue ==
    ValidSkip => NestingAt(sk.buf, sstart, stype).pos = sstart + svlen

\* a struct of three fields was skipped with never more than one frame
ThreeFieldsOneFrame ==
    /\ ValidSkip /\ stype = T_Struct /\ NestingDepth = 1 /\ Len(sk.stack) = 1
    /\ Slice(sk.buf, sstart, svlen) =
          Encode(VStruct(<<VI16, VBin(1), VBool>>, <<1, 7, -2>>))

(***************************************************************************)
(* binary.rs: asynchronous skip_message of the skipper.  The version word, *)
(* the name length and the name with the sequence number are taken behind  *)
(* a require_data! each, then the struct is skipped by skip_field.  A run  *)
(* is an asynchronous skipper with the place `at` inside skip_message      *)
(* ("version", "len", "name", "struct"), the name length read and the      *)
(* message of the error.                                                   *)
(***************************************************************************)
NewSkipMessage(stream) ==
    [stream |-> stream, iopos |-> 0, reads |-> 0, m |-> NewSkip(<<>>, 0, T_Struct),
     bm |-> BytesMut_new, fill |-> NoFill, at |-> "version", len |-> 0, msg |-> ""]

\* (a variant that forgets the sequence number)
name_and_seq_NameOnly(len) ==
    IF len < 0 \/ len > MaxI32 - 4 THEN Req(-1, 1) ELSE Req(len, 1)

\* `len + 4` of the usize `len = get_i32() as usize`: a negative i32 is
\* 2^64 + len, and the sum wraps to len + 4 for -4 .. -1 (a build without
\* overflow checks); below -4 and above 2^31 - 5 it is 2^31 or more
name_and_seq(len) ==
    IF len \in -4..-1 THEN Req(len + 4, 1)
    ELSE IF len < 0 \/ len > MaxI32 - 4 THEN Req(-1, 1)
    ELSE Req(len + 4, 1)

\* the argument of the require_data! the run stands at
MessageWant(k) ==
    CASE k.at \in {"version", "len"} -> Req(4, 1)
      [] k.at = "name" -> name_and_seq(k.len)
      [] k.at = "struct" -> Want(k.m)

\* the step behind the require_data!, its data being there
skip_message_step(k, checks) ==
    CASE k.at = "version" ->
            LET size == from_be_bytes_i32(Slice(k.m.buf, k.m.pos, 4))
                k1 == [k EXCEPT !.m.pos = @ + 4]
            IN  IF size > 0
                THEN [k1 EXCEPT !.m.res = "BadVersion",
                                !.msg = "Missing version in ReadMessageBegin"]
                ELSE IF VersionBits(size) # VERSION_1_i32
                THEN [k1 EXCEPT !.m.res = "BadVersion",
                                !.msg = "Bad version in ReadMessageBegin"]
                ELSE [k1 EXCEPT !.at = "len"]
      [] k.at = "len" ->
            LET len == from_be_bytes_i32(Slice(k.m.buf, k.m.pos, 4))
                k1 == [k EXCEPT !.m.pos = @ + 4, !.len = len]
            IN  IF len \in -4..-1 /\ checks
                THEN [k1 EXCEPT !.m.res = "panic"]
                ELSE [k1 EXCEPT !.at = "name"]
      [] k.at = "name" ->
            [k EXCEPT !.m.pos = @ + name_and_seq(k.len).cnt, !.at = "struct"]
      [] k.at = "struct" -> askip_step(k, checks)

\* fill_at_least for the require_data! the run stands at: a name length
\* that was negative asks reserve for about 2^64 bytes (panic), one near
\* 2^31 is reserved if the allocator can and read until the source ends
skip_message_fill(k, alloc) ==
    IF k.at = "struct" THEN askip_fill(k, alloc)
    ELSE IF Huge(MessageWant(k))
    THEN IF k.len < 0 THEN [k EXCEPT !.m.res = "panic"]
         ELSE IF ~alloc THEN [k EXCEPT !.m.res = "abort"]
         ELSE Filling(k, Reserved(Len(k.m.buf), Unbounded))
    ELSE Filling(k, read_more_at_least(k.bm, Len(k.m.buf),
                                       MessageWant(k).cnt - SkipRemaining(k.m), TRUE))

\* the messages: every kind, an empty and a four-byte name, three structs
MessageStructs ==
    {VStruct(<<>>, <<>>), VStruct(<<VI16, VBin(1), VBool>>, <<1, 7, -2>>), ScenarioE2}

MessageBytes(name, type, seq, body) ==
    EncV(write_message_begin(NewWriter(<<>>), MessageIdent(name, type, seq)), body).trans

MessageTrails == {<<>>, <<15>>, <<128, 1, 0, 1, 0>>}

MessageInputs ==
    { LET e == MessageBytes(name, type, 9, body) IN
      SkipInput(e \o trail, 0, T_Struct, "valid", Len(e)) :
        name \in {<<>>, NamePing}, type \in {1, 4}, body \in MessageStructs,
        trail \in MessageTrails }

\* every sampled first word before the name "a", the sequence number 9 and
\* an empty struct
MessageWordInputs ==
    { SkipInput(to_be_bytes_i32(w) \o AfterWord \o <<T_Stop>>, 0, T_Struct, "word", 14) :
        w \in WordSamples }

\* name lengths no name has
MessageLengthInputs ==
    { SkipInput(to_be_bytes_i32(VERSION_1_i32 + 1) \o to_be_bytes_i32(l)
                \o <<0, 0, 0, 9, T_Stop>>, 0, T_Struct, "hostile", 0) :
        l \in {-5, -4, -1, MaxI32} }

StartSkipMessage(in) ==
    /\ mode = "amsg"
    /\ wr = <<>> /\ wg = <<>> /\ th = <<>>
    /\ ak = NewSkipMessage(in.buf)
    /\ stype = in.t /\ skind = in.kind /\ sstart = 0 /\ svlen = in.vlen
    /\ sk = <<>> /\ rd = <<>> /\ ar = <<>>

InitSkipMessage ==
    \E in \in MessageInputs \cup MessageWordInputs \cup MessageLengthInputs :
        StartSkipMessage(in)

SkipMessageStep ==
    /\ mode = "amsg"
    /\ ak.m.res = "running" /\ ~ak.fill.on
    /\ ~Lacks(SkipRemaining(ak.m), MessageWant(ak))
    /\ \E checks \in BOOLEAN : ak' = skip_message_step(ak, checks)
    /\ UNCHANGED <<mode, skipVars, rd, ar, wr, wg, th>>

SkipMessageFill ==
    /\ mode = "amsg"
    /\ ak.m.res = "running" /\ ~ak.fill.on
    /\ Lacks(SkipRemaining(ak.m), MessageWant(ak))
    /\ \E alloc \in BOOLEAN : ak' = skip_message_fill(ak, alloc)
    /\ UNCHANGED <<mode, skipVars, rd, ar, wr, wg, th>>

SkipMessageRead ==
    /\ mode = "amsg"
    /\ ak.m.res = "running" /\ ak.fill.on
    /\ \E n \in SourceReturns(ak.stream, ak.iopos, ak.fill) : ak' = askip_read(ak, n)
    /\ UNCHANGED <<mode, skipVars, rd, ar, wr, wg, th>>

NextSkipMessage == SkipMessageStep \/ SkipMessageFill \/ SkipMessageRead

SpecSkipMessage == InitSkipMessage /\ [][NextSkipMessage]_vars

\* the run skips a well-formed message followed by bytes
MessageSkipped == mode = "amsg" /\ skind = "valid"

\* the length of the name of the message in the stream
NameLength == from_be_bytes_i32(Slice(ak.stream, 4, 4))

\* the first word of the stream
FirstWord == from_be_bytes_i32(Slice(ak.stream, 0, 4))

\* C28: for a stream that starts with a well-formed strict Binary message
\* followed by bytes R, asynchronous skip_message returns Ok with the read
\* position at the first byte of R, having consumed exactly 4 (version word)
\* + 4 + name length + 4 (sequence number) + the encoded struct bytes, for
\* every chunking of the stream; a first word that is positive or whose
\* high 16 bits differ from 0x8001 fails with BadVersion.
C28_SkipMessage ==
    /\ MessageSkipped =>
          /\ ak.m.res \in {"running", "Ok"}
          /\ ak.m.pos <= svlen
          /\ (ak.m.res = "Ok") =>
                \A checks \in BOOLEAN :
                    LET body == ReadValue(Reader(ak.stream, 12 + NameLength),
                                          T_Struct, checks)
                    IN  /\ body.st = "Ok"
                        /\ ak.m.pos = 4 + 4 + NameLength + 4
                                      + (body.pos - (12 + NameLength))
                        /\ ak.m.pos = svlen
    /\ (/\ mode = "amsg" /\ skind = "word" /\ ak.m.res # "running"
        /\ (FirstWord > 0 \/ VersionBits(FirstWord) # VERSION_1_i32)) =>
          ak.m.res = "BadVersion"

\* the message "ping" with the struct of scenario E2 was skipped from a
\* source that gave one byte per read, five bytes behind it not consumed
C28_Witness ==
    /\ MessageSkipped /\ ak.m.res = "Ok"
    /\ NameLength = 4 /\ ak.m.pos = svlen
    /\ Slice(ak.stream, 0, svlen) = MessageBytes(NamePing, 1, 9, ScenarioE2)
    /\ Len(ak.stream) = svlen + 5
    /\ ak.reads = ak.iopos /\ ak.iopos >= svlen

\* the same skipped from a source that gave the whole stream at once
MessageAtOnce ==
    /\ MessageSkipped /\ ak.m.res = "Ok" /\ ak.reads = 1
    /\ ak.iopos = Len(ak.stream) /\ ak.m.pos = svlen /\ Len(ak.stream) = svlen + 5

\* a positive first word and the word 0 were rejected
MissingVersionRejected ==
    /\ mode = "amsg" /\ skind = "word" /\ FirstWord = 1
    /\ ak.m.res = "BadVersion" /\ ak.msg = "Missing version in ReadMessageBegin"
ZeroWordRejected ==
    /\ mode = "amsg" /\ skind = "word" /\ FirstWord = 0
    /\ ak.m.res = "BadVersion" /\ ak.msg = "Bad version in ReadMessageBegin"

\* a word with the version bits and the kind nibble 0 was taken
KindNibbleNotLooked ==
    /\ mode = "amsg" /\ skind = "word" /\ FirstWord = VERSION_1_i32
    /\ ak.m.res = "Ok" /\ ak.m.pos = svlen

\* the name length -1: the sum wrapped to 3, or the addition panicked
NameLengthWrapped ==
    /\ mode = "amsg" /\ skind = "hostile" /\ ak.len = -1 /\ ak.at = "struct"
NameLengthPanicked ==
    /\ mode = "amsg" /\ skind = "hostile" /\ ak.len = -1 /\ ak.m.res = "panic"

(***************************************************************************)
(* thrift.rs: TType and its single-byte wire form.  Elsewhere in the model *)
(* a TType is kept as its wire value; here the variants are kept by name,  *)
(* the enum gives each its discriminant and try_from matches on the byte.  *)
(***************************************************************************)
TTypeVariants ==
    {"Stop", "Void", "Bool", "I8", "Double", "I16", "I32", "I64", "Binary",
     "Struct", "Map", "Set", "List", "Uuid"}

\* impl From<TType> for u8: `ttype as u8`, the discriminant of the variant
u8_from_TType(ttype) ==
    CASE ttype = "Stop" -> 0
      [] ttype = "Void" -> 1
      [] ttype = "Bool" -> 2
      [] ttype = "I8" -> 3
      [] ttype = "Double" -> 4
      [] ttype = "I16" -> 6
      [] ttype = "I32" -> 8
      [] ttype = "I64" -> 10
      [] ttype = "Binary" -> 11
      [] ttype = "Struct" -> 12
      [] ttype = "Map" -> 13
      [] ttype = "Set" -> 14
      [] ttype = "List" -> 15
      [] ttype = "Uuid" -> 16

\* (a variant whose match also has an arm `5 => Ok(TType::I16)`)
TType_match_FiveIsI16(value) ==
    IF value = 5 THEN [st |-> "Ok", val |-> "I16"]
    ELSE IF \E t \in TTypeVariants : u8_from_TType(t) = value
    THEN [st |-> "Ok", val |-> CHOOSE t \in TTypeVariants : u8_from_TType(t) = value]
    ELSE [st |-> "InvalidData", val |-> ""]

\* impl TryFrom<u8> for TType: the match on the byte
TType_match(value) ==
    CASE value = 0 -> [st |-> "Ok", val |-> "Stop"]
      [] value = 1 -> [st |-> "Ok", val |-> "Void"]
      [] value = 2 -> [st |-> "Ok", val |-> "Bool"]
      [] value = 3 -> [st |-> "Ok", val |-> "I8"]
      [] value = 4 -> [st |-> "Ok", val |-> "Double"]
      [] value = 6 -> [st |-> "Ok", val |-> "I16"]
      [] value = 8 -> [st |-> "Ok", val |-> "I32"]
      [] value = 10 -> [st |-> "Ok", val |-> "I64"]
      [] value = 11 -> [st |-> "Ok", val |-> "Binary"]
      [] value = 12 -> [st |-> "Ok", val |-> "Struct"]
      [] value = 13 -> [st |-> "Ok", val |-> "Map"]
      [] value = 14 -> [st |-> "Ok", val |-> "Set"]
      [] value = 15 -> [st |-> "Ok", val |-> "List"]
      [] value = 16 -> [st |-> "Ok", val |-> "Uuid"]
      [] OTHER -> [st |-> "InvalidData", val |-> ""]

\* a conversion to be made: of a byte (then back), or of a variant (then back)
StartConvert(kind, in) ==
    /\ mode = "tt"
    /\ th = [kind |-> kind, in |-> in, st |-> "ready",
             res |-> [st |-> "", val |-> ""], back |-> -1]
    /\ wr = <<>> /\ wg = <<>>
    /\ sk = <<>> /\ stype = 0 /\ skind = "" /\ sstart = 0 /\ svlen = 0
    /\ rd = <<>> /\ ar = <<>> /\ ak = <<>>

InitTType ==
    \/ \E b \in Byte : StartConvert("byte", b)
    \/ \E t \in TTypeVariants : StartConvert("variant", t)

\* TType::try_from(b), and u8::from of the variant it gave
ConvertByte ==
    /\ mode = "tt" /\ th.st = "ready" /\ th.kind = "byte"
    /\ th' = [th EXCEPT !.st = "done", !.res = TType_match(th.in),
                        !.back = IF TType_match(th.in).st = "Ok"
                                 THEN u8_from_TType(TType_match(th.in).val) ELSE -1]
    /\ UNCHANGED <<mode, skipVars, rd, ar, ak, wr, wg>>

\* u8::from(t), and TType::try_from of the byte it gave
ConvertVariant ==
    /\ mode = "tt" /\ th.st = "ready" /\ th.kind = "variant"
    /\ th' = [th EXCEPT !.st = "done", !.back = u8_from_TType(th.in),
                        !.res = TType_match(u8_from_TType(th.in))]
    /\ UNCHANGED <<mode, skipVars, rd, ar, ak, wr, wg>>

NextTType == ConvertByte \/ ConvertVariant

SpecTType == InitTType /\ [][NextTType]_vars

Converted(kind) == mode = "tt" /\ th.st = "done" /\ th.kind = kind

\* C29: TType::try_from(u8) succeeds exactly for the 14 wire values
\* 0,1,2,3,4,6,8,10,11,12,13,14,15,16 (5, 7, 9 and every value above 16
\* fail with InvalidData), u8::from(TType::try_from(b)) = b for every
\* accepted b, and TType::try_from(u8::from(t)) = t for every TType t.
C29_TTypeBijection ==
    /\ Converted("byte") =>
          /\ (th.res.st = "Ok") <=>
                (th.in \in {0, 1, 2, 3, 4, 6, 8, 10, 11, 12, 13, 14, 15, 16})
          /\ (th.res.st # "Ok") => th.res.st = "InvalidData"
          /\ (th.res.st = "Ok") => (th.res.val \in TTypeVariants /\ th.back = th.in)
    /\ Converted("variant") =>
          (th.res.st = "Ok" /\ th.res.val = th.in /\ th.back \in Byte)

\* the byte 6 gave I16 and I16 gave 6 again
C29_Witness ==
    /\ Converted("byte") /\ th.in = 6
    /\ th.res = [st |-> "Ok", val |-> "I16"] /\ th.back = 6

\* the gap 5 and the byte 17 were rejected, Uuid came back from its byte
GapRejected ==
    Converted("byte") /\ th.in = 5 /\ th.res.st = "InvalidData"
AboveUuidRejected ==
    Converted("byte") /\ th.in = 17 /\ th.res.st = "InvalidData"
UuidRoundTrip ==
    Converted("variant") /\ th.in = "Uuid" /\ th.back = 16 /\ th.res.val = "Uuid"

\* the wire values the rest of the model takes as type tags are the bytes
\* try_from accepts, each standing for its variant
WireValuesAgree ==
    Converted("byte") =>
        /\ TType_try_from(th.in).st = th.res.st
        /\ (th.res.st = "Ok") => TType_try_from(th.in).val = u8_from_TType(th.res.val)

(***************************************************************************)
(* The message kind read_message_begin takes from the first word           *)
(***************************************************************************)
\* enum TMessageType: the discriminant of each kind (the model keeps a
\* message type as this value)
TMessageType_as_u8(t) ==
    CASE t = "Call" -> 1
      [] t = "Reply" -> 2
      [] t = "Exception" -> 3
      [] t = "OneWay" -> 4

\* read_message_begin has returned on a first word with the version bits
VersionWordRead ==
    /\ mode = "read" /\ rd.kind = "word" /\ rd.st # "running"
    /\ VersionBits(from_be_bytes_i32(SubSeq(rd.buf, 1, 4))) = VERSION_1_i32

\* bits 3..0 of the first word, from its last byte
KindNibble == rd.buf[4] % 16

\* C30: with a first word whose high 16 bits are 0x8001, read_message_begin
\* takes the message kind from the low nibble of the word: nibble 1, 2, 3, 4
\* gives Call, Reply, Exception, OneWay and any other nibble fails with
\* InvalidData before the name is read.
C30_KindFromLowNibble ==
    VersionWordRead =>
        /\ \A t \in {"Call", "Reply", "Exception", "OneWay"} :
              (KindNibble = TMessageType_as_u8(t)) =>
                  /\ rd.st = "done"
                  /\ rd.out[1].message_type = TMessageType_as_u8(t)
                  /\ rd.out[1].name = <<97>> /\ rd.out[1].sequence_number = 9
        /\ (KindNibble \notin 1..4) =>
              (rd.st = "InvalidData" /\ rd.pos = 4 /\ rd.out = <<>>)

\* the word 8001FFF3 gave an Exception: only the low nibble of the low 16
\* bits was looked at
C30_Witness ==
    /\ VersionWordRead /\ SubSeq(rd.buf, 1, 4) = <<128, 1, 255, 243>>
    /\ rd.st = "done" /\ rd.out[1].message_type = TMessageType_as_u8("Exception")
    /\ rd.pos = Len(rd.buf)

\* the nibbles 0, 5, 8 and 15 were rejected with the cursor behind the word
NibbleRejected ==
    /\ VersionWordRead /\ KindNibble = 15 /\ rd.st = "InvalidData" /\ rd.pos = 4
NibbleEightRejected ==
    /\ VersionWordRead /\ SubSeq(rd.buf, 1, 4) = <<128, 1, 255, 248>>
    /\ rd.st = "InvalidData" /\ rd.pos = 4
CallWithBitFour ==
    /\ VersionWordRead /\ SubSeq(rd.buf, 1, 4) = <<128, 1, 0, 17>>
    /\ rd.st = "done" /\ rd.out[1].message_type = 1

(***************************************************************************)
(* Asynchronous skip_field on the encodings the synchronous one is run on: *)
(* the whole encoding followed by bytes, and every proper prefix of it;    *)
(* the source cuts the stream as it likes                                  *)
(***************************************************************************)
AsyncSkipValues ==
    Layer[0] \cup Layer[1]
    \cup {ScenarioE2, VStruct(<<>>, <<>>),
          VList(T_List, Repeat(VList(T_Binary, Repeat(VBin(1), 2)), 2)),
          VMap(T_Binary, T_Struct,
               Entries(VBin(1), VStruct(<<VI16, VBin(1), VBool>>, <<1, 7, -2>>), 2))}

AsyncSkipInputs ==
    UNION { LET e == Encode(v) IN
            {SkipInput(e \o trail, 0, v.t, "valid", Len(e)) : trail \in Trails}
            \cup {SkipInput(SubSeq(e, 1, n), 0, v.t, "short", 0) : n \in 0..(Len(e) - 1)} :
            v \in AsyncSkipValues }

InitAsyncSkip == \E in \in AsyncSkipInputs : StartAsyncSkip(in)

NextAsyncSkip == AsyncSkipStep \/ AsyncSkipFill \/ AsyncSkipRead

SpecAsyncSkip == InitAsyncSkip /\ [][NextAsyncSkip]_vars

\* the synchronous skip_field on the whole stream, in either build
SyncSkipOf(checks) == skip_field(NewSkip(ak.stream, 0, stype), checks)

\* C32: asynchronous skip_field(T) is the same state machine as the
\* synchronous one: on any stream whose prefix the synchronous skip_field(T)
\* accepts it succeeds having advanced the cursor by the same number of
\* bytes, for every chunking of the stream across source reads; where the
\* synchronous skip fails for short input, the asynchronous one asks the
\* source for more bytes and fails with an unexpected-EOF I/O error once the
\* source is exhausted.
C32_AsyncSkipEquivalence ==
    (mode = "askip" /\ skind \in {"valid", "short"}) =>
        \A checks \in BOOLEAN :
            LET sync == SyncSkipOf(checks) IN
            /\ (skind = "valid") => sync.res = "Ok"
            /\ (skind = "short") => sync.res = "InvalidData"
            /\ ak.m.pos <= Len(ak.m.buf)
            /\ (sync.res = "Ok") =>
                  /\ ak.m.res \in {"running", "Ok"}
                  /\ ak.m.pos <= sync.pos
                  /\ (ak.m.res = "Ok") => ak.m.pos = sync.pos
            /\ (sync.res = "InvalidData") =>
                  /\ ak.m.res \in {"running", "IOError"}
                  /\ (ak.m.res = "IOError") =>
                        (ak.iopos = Len(ak.stream) /\ ak.m.buf = ak.stream)

\* scenario E2 followed by a byte was skipped from a source that gave one
\* byte per read
C32_Witness ==
    /\ mode = "askip" /\ skind = "valid" /\ ak.m.res = "Ok"
    /\ Slice(ak.stream, 0, svlen) = Encode(ScenarioE2)
    /\ Len(ak.stream) = svlen + 1 /\ ak.m.pos = svlen
    /\ ak.reads = ak.iopos /\ ak.reads >= svlen

\* the same cut one byte before its end: the source ran dry
ShortStreamRanDry ==
    /\ mode = "askip" /\ skind = "short" /\ ak.m.res = "IOError"
    /\ ak.stream = SubSeq(Encode(ScenarioE2), 1, Len(Encode(ScenarioE2)) - 1)
    /\ ak.reads > 1

\* a stream skipped after a single read that gave all of it
SkippedAfterOneRead ==
    /\ mode = "askip" /\ skind = "valid" /\ ak.m.res = "Ok" /\ ak.reads = 1
    /\ stype = T_Map /\ ak.m.pos = svlen /\ Len(ak.stream) > svlen

(***************************************************************************)
(* read_more_at_least as the asynchronous skipper calls it                 *)
(***************************************************************************)
\* the bytes fill_at_least asks for: n - remaining
ToRead(k) == Want(k.m).cnt * Want(k.m).unit - SkipRemaining(k.m)

\* C31: read_more_at_least(io, buffer, to_read) calls the byte source
\* repeatedly and returns Ok only when at least to_read bytes have been
\* appended to the buffer, in source order and after the bytes that were
\* already there (no buffered byte is lost, duplicated or reordered); if
\* the byte source returns 0 before that, it fails with an UnexpectedEof
\* I/O error, surfaced to the reader's caller as CodecErrorKind::IOError.
C31_ReadMoreAtLeast ==
    [][(mode = "askip") =>
        \* entry: read = buffer.len(), at_least = read + to_read
        /\ (~ak.fill.on /\ ak'.fill.on) =>
              /\ ak'.fill.read = Len(ak.m.buf)
              /\ ak'.fill.at_least = Len(ak.m.buf) + ToRead(ak)
              /\ ak'.fill.end = ak'.bm.cap
              /\ ak'.fill.end >= Len(ak.m.buf) + Max(ToRead(ak), MIN_CAPACITY)
              /\ ak'.m.buf = ak.m.buf
        \* a read that gave bytes appends them, in source order
        /\ (ak.fill.on /\ ak'.m.res = "running") =>
              /\ ak'.iopos > ak.iopos
              /\ ak'.m.buf = ak.m.buf \o SubSeq(ak.stream, ak.iopos + 1, ak'.iopos)
              /\ ak'.m.pos = ak.m.pos
              /\ ak'.fill.on <=> Len(ak'.m.buf) < ak.fill.at_least
        \* a read that gave nothing fails the call
        /\ (ak.fill.on /\ ak.iopos = Len(ak.stream)) =>
              (ak'.m.res = "IOError" /\ ak'.m.buf = ak.m.buf)
        /\ (ak.fill.on /\ ak'.m.res # "running") => ak.iopos = Len(ak.stream)
      ]_vars

\* the eight bytes of an i64 were asked for and came in three reads; the
\* call has returned and the value is not yet skipped
C31_Witness ==
    /\ mode = "askip" /\ stype = T_I64 /\ ak.m.res = "running"
    /\ ~ak.fill.on /\ ak.reads = 3 /\ ak.m.pos = 0
    /\ Len(ak.m.buf) = 8 /\ ak.m.buf = SubSeq(ak.stream, 1, 8)

\* the buffer always holds the bytes the source gave, in order
BufferIsStreamPrefix ==
    (mode = "askip") => ak.m.buf = SubSeq(ak.stream, 1, ak.iopos)

\* the source gave 0 after five bytes of an i64
EofDuringFill ==
    /\ mode = "askip" /\ stype = T_I64 /\ ak.m.res = "IOError"
    /\ Len(ak.m.buf) = 5 /\ ak.reads = 2

\* a fill went on after a read that gave fewer bytes than asked for
FillWentOn ==
    /\ mode = "askip" /\ ak.fill.on /\ ak.reads = 2 /\ ak.fill.read = 4
    /\ ak.fill.at_least = 16

(***************************************************************************)
(* The order in which the elements of a collection are skipped             *)
(***************************************************************************)
\* a direct element of the container the run was started on is current:
\* the one frame on the stack is the container's Collection
ElementCurrent ==
    /\ mode = "skip" /\ skind = "valid" /\ sk.res = "running"
    /\ stype \in {T_Map, T_List, T_Set}
    /\ Len(sk.stack) = 1 /\ sk.stack[1].k = "Collection" /\ sk.cur.k = "Other"

\* the count the header of the container declares
DeclaredCount ==
    from_be_bytes_i32(Slice(sk.buf, sstart + (IF stype = T_Map THEN 2 ELSE 1), 4))

\* the value of `remaining` at which the current element was taken
RemainingAtTake == sk.stack[1].len + 1

\* C33: when skip_field skips a map whose key or value type is not
\* fixed-width, it skips the elements in wire order key, value, key, value,
\* ...: with Collection(remaining, [key_type, value_type]) started at
\* remaining = 2 x count, the element skipped at an even remaining has
\* key_type and the one skipped at an odd remaining has value_type; for
\* lists and sets every element has the element type.
C33_ElementOrder ==
    ElementCurrent =>
        IF stype = T_Map
        THEN LET key_type == sk.buf[sstart + 1]
                 value_type == sk.buf[sstart + 2]
                 \* the place of the element on the wire, from 1
                 place == 2 * DeclaredCount - RemainingAtTake + 1
             IN  /\ RemainingAtTake \in 1..(2 * DeclaredCount)
                 /\ sk.stack[1].t0 = key_type /\ sk.stack[1].t1 = value_type
                 /\ (RemainingAtTake % 2 = 0) => sk.cur.t = key_type
                 /\ (RemainingAtTake % 2 = 1) => sk.cur.t = value_type
                 /\ (place % 2 = 1) <=> (RemainingAtTake % 2 = 0)
        ELSE /\ RemainingAtTake \in 1..DeclaredCount
             /\ sk.cur.t = sk.buf[sstart + 1]

\* the second value (a binary) of a map of two i32 -> binary entries is
\* current, taken at remaining = 1 behind both keys and the first value
C33_Witness ==
    /\ ElementCurrent /\ stype = T_Map /\ DeclaredCount = 2
    /\ sk.buf[sstart + 1] = T_I32 /\ sk.buf[sstart + 2] = T_Binary
    /\ RemainingAtTake = 1 /\ sk.cur.t = T_Binary /\ sk.ph.k = "top"
    /\ sk.pos = sstart + 6 + 4 + 5 + 4

\* a binary key taken at remaining = 2, before its struct value
KeyTakenFirst ==
    /\ ElementCurrent /\ stype = T_Map /\ DeclaredCount = 1
    /\ sk.buf[sstart + 1] = T_Binary /\ sk.buf[sstart + 2] = T_Struct
    /\ RemainingAtTake = 2 /\ sk.cur.t = T_Binary /\ sk.pos = sstart + 6

\* the second element of a list of binaries
ListElementTaken ==
    /\ ElementCurrent /\ stype = T_List /\ DeclaredCount = 2
    /\ RemainingAtTake = 1 /\ sk.cur.t = T_Binary

(***************************************************************************)
(* Map headers declaring 2^31 entries or more                              *)
(***************************************************************************)
\* skip_field(Map) has returned on a header that declares 2^31 entries or
\* more, with a key or value type that is not fixed-width
HugeMapSkipped ==
    /\ mode = "skip" /\ skind = "hostile" /\ stype = T_Map /\ sk.res # "running"
    /\ from_be_bytes_i32(Slice(sk.buf, sstart + 2, 4)) < 0
    /\ \/ BINARY_BASIC_TYPE_FIXED_SIZE[sk.buf[sstart + 1]] = 0
       \/ BINARY_BASIC_TYPE_FIXED_SIZE[sk.buf[sstart + 2]] = 0

\* C34: for a map with declared count c (read as an unsigned 32-bit number)
\* and a key or value type that is not fixed-width, skip_field skips exactly
\* 2 x c elements: for c >= 2^31 the remaining counter does not wrap modulo
\* 2^32, so a map header declaring 2^31 entries followed by no data fails
\* with InvalidData and is never skipped as an empty map.
C34_MapCountNoWrap ==
    HugeMapSkipped => sk.res = "InvalidData"

\* what the code does: `element_len * 2` is a u32 product; it panics in a
\* build with overflow checks and wraps in one without, and the wrapped
\* counter 0 ends the skip with Ok behind the header
MapCountAsCoded ==
    HugeMapSkipped =>
        LET c == from_be_bytes_i32(Slice(sk.buf, sstart + 2, 4)) IN
        \/ sk.res = "panic" /\ sk.pos = sstart + 6
        \/ U32Mul2Wrapped(c) = 0 /\ sk.res = "Ok" /\ sk.pos = sstart + 6
        \/ U32Mul2Wrapped(c) # 0 /\ sk.res \in {"InvalidData", "Ok"}

\* 0B 08 80 00 00 00 with no data was skipped as an empty map
HugeMapSkippedAsEmpty ==
    /\ HugeMapSkipped /\ sk.buf = <<T_Binary, T_I32, 128, 0, 0, 0>>
    /\ sk.res = "Ok" /\ sk.pos = 6

\* the same header made the product panic
HugeMapPanicked ==
    /\ HugeMapSkipped /\ sk.buf = <<T_Binary, T_I32, 128, 0, 0, 0>>
    /\ sk.res = "panic"

(***************************************************************************)
(* Where the pairs of an int-KV block are stored                           *)
(***************************************************************************)
\* a decode call has delivered the header of a frame with one int-KV block
IntKvDecoded == RawCalled /\ th.case.name = "intkv" /\ th.st = "Some"

\* the pairs of the block as they stand on the wire: the block's info id is
\* byte 16 of the frame, its count bytes 17..18, the first key byte 19
RECURSIVE WirePairs(_, _, _)
WirePairs(buf, index, count) ==
    IF count = 0 THEN <<>>
    ELSE LET key == 256 * buf[index + 1] + buf[index + 2]
             n == 256 * buf[index + 3] + buf[index + 4]
         IN  <<[key |-> key, val |-> SmolStr(SubSeq(buf, index + 5, index + 4 + n))]>>
                \o WirePairs(buf, index + 4 + n, count - 1)

PairsOnWire == WirePairs(th.all, 19, th.case.a)

\* the pairs with a key at or above the table size, in their order
RECURSIVE SpillOf(_, _)
SpillOf(pairs, i) ==
    IF i > Len(pairs) THEN <<>>
    ELSE (IF pairs[i].key >= 27 THEN <<pairs[i]>> ELSE <<>>) \o SpillOf(pairs, i + 1)

\* C35: after decoding an int-KV block, each pair with key below the table
\* size (27) is stored only in int_headers[key], a later pair with the same
\* key replacing an earlier one, and each pair with key at or above the
\* table size is appended, in wire order, only to int_headers_ext.
C35_IntKvPlacement ==
    /\ (RawCalled /\ th.case.name = "intkv") => th.st = "Some"
    /\ IntKvDecoded =>
          LET pairs == PairsOnWire
              h == th.out.ttheader
          IN  /\ Len(pairs) = th.case.a
              /\ DOMAIN h.int_headers = 0..26
              /\ \A k \in 0..26 :
                    IF \E i \in 1..Len(pairs) : pairs[i].key = k
                    THEN LET last == CHOOSE i \in 1..Len(pairs) :
                                        /\ pairs[i].key = k
                                        /\ \A j \in (i + 1)..Len(pairs) : pairs[j].key # k
                         IN  h.int_headers[k] = Some(pairs[last].val)
                    ELSE h.int_headers[k] = None
              /\ h.int_headers_ext = SpillOf(pairs, 1)

\* the block (3, "a"), (100, "e"), (3, "bb") was decoded: slot 3 holds
\* "bb", the spill vector the one pair with key 100
C35_Witness ==
    /\ IntKvDecoded /\ th.case.a = 3
    /\ PairsOnWire = << [key |-> 3, val |-> SmolStr(<<97>>)],
                        [key |-> 100, val |-> SmolStr(<<101>>)],
                        [key |-> 3, val |-> SmolStr(<<98, 98>>)] >>
    /\ th.out.ttheader.int_headers[3] = Some(SmolStr(<<98, 98>>))
    /\ th.out.ttheader.int_headers_ext = << [key |-> 100, val |-> SmolStr(<<101>>)] >>

\* the keys 26 and 27 went to the two sides of the table's end
TableEndSplit ==
    /\ IntKvDecoded /\ th.case.a = 2
    /\ th.out.ttheader.int_headers[26] = Some(SmolStr(<<99>>))
    /\ th.out.ttheader.int_headers_ext = << [key |-> 27, val |-> SmolStr(<<100>>)] >>

\* the same key twice beyond the table: both pairs kept, in wire order
SpillKeepsBoth ==
    /\ IntKvDecoded /\ th.case.a = 2
    /\ th.out.ttheader.int_headers_ext =
          << [key |-> 100, val |-> SmolStr(<<102>>)],
             [key |-> 100, val |-> SmolStr(<<101>>)] >>

(***************************************************************************)
(* The total_length of the frames TTHeaderPayloadEncoder emits             *)
(***************************************************************************)
\* C36: after TTHeaderPayloadEncoder.encode returns Ok, the frame's
\* total_length field equals the number of bytes that follow it in the
\* frame (10 bytes of meta, the header area and the payload bytes actually
\* written by the payload encoder), whatever payload_length hint the
\* TTHeader carried.
C36_TotalLengthIsFrameLength ==
    (mode = "tth" /\ th.kind \in FrameKinds) =>
        \A i \in 1..Len(th.wire) :
            /\ TotalLengthField(th.wire[i]) = Len(th.wire[i]) - 4
            /\ TotalLengthField(th.wire[i]) =
                  10 + HeaderSizeField(th.wire[i]) * 4 + Len(th.items[i].payload.v)
            /\ Slice(th.wire[i], Len(th.wire[i]) - Len(th.items[i].payload.v),
                     Len(th.items[i].payload.v)) = th.items[i].payload.v

\* a second frame with the hint 2^32 - 1 and a payload of 3 bytes, behind a
\* frame with the hint 7 and no payload
C36_Witness ==
    /\ mode = "tth" /\ th.kind = "frames" /\ Len(th.wire) = 2
    /\ th.items[1].ttheader.payload_length = 7 /\ th.items[1].payload.v = <<>>
    /\ th.items[2].ttheader.payload_length = -1 /\ Len(th.items[2].payload.v) = 3
    /\ TotalLengthField(th.wire[2]) = Len(th.wire[2]) - 4
    /\ TotalLengthField(th.wire[1]) = Len(th.wire[1]) - 4

\* the header encoder alone writes the hint into the length
HintInHeaderOnlyLength ==
    /\ mode = "tth" /\ th.kind = "header" /\ Len(th.wire) = 1
    /\ th.items[1].ttheader.payload_length = 7
    /\ TotalLengthField(th.wire[1]) = Len(th.wire[1]) - 4 + 7

(***************************************************************************)
(* The reads of decode_header inside the header area                       *)
(***************************************************************************)
\* the last call got past the magic and the header size: decode_header
\* split the header area off and, unless the subtraction panicked, walked it
AreaSplit ==
    /\ RawCalled /\ Len(th.prev) >= MIN_HEADER_LENGTH /\ HasMagic(th.prev)
    /\ th.last.dec # "InsufficientAtLeast"
    /\ HeaderSizeField(th.prev) >= 1
    /\ Len(th.prev) >= MIN_HEADER_LENGTH + HeaderSizeField(th.prev) * 4

AreaLength == HeaderSizeField(th.prev) * 4

\* the walk over the area of the last call: every read takes the bytes from
\* the index before it up to the index after it, so the bytes read are 0 and
\* those from 2 up to the last index of the walk
AreaWalk ==
    read_infos(Slice(th.prev, MIN_HEADER_LENGTH, AreaLength), 2, AreaLength,
               DefaultTTHeader)

\* C37: decode_header never reads outside the header area: every byte it
\* reads has an index below header_size * 4, the read index never exceeds
\* header_size * 4, and a KV count, key, or string length that would run
\* past the end of the header area fails with InvalidData instead of being
\* read.
C37_ReadsInsideHeaderArea ==
    AreaSplit =>
        /\ AreaWalk.index <= AreaLength
        /\ th.case.name = "overrun" => (~AreaWalk.ok /\ InvalidDataReturned)

\* as coded: the index stays inside the area for every frame, and a block
\* running past the end is InvalidData unless the subtraction of C17 has
\* panicked before the walk
ReadsInsideAsCoded ==
    AreaSplit =>
        /\ 2 <= AreaWalk.index /\ AreaWalk.index <= AreaLength
        /\ th.case.name = "overrun" =>
            /\ ~AreaWalk.ok
            /\ InvalidDataReturned \/ (th.case.b = 1 /\ th.last.dec = "panic")
        /\ (th.case.name = "overrun" /\ th.case.b = 0) => InvalidDataReturned
        /\ th.case.name = "full" =>
            /\ AreaWalk.ok /\ AreaWalk.index = AreaLength
            /\ th.last.dec = "Some" \/ (th.case.b = 1 /\ th.last.dec = "panic")

\* a string-KV count straddling the end of a one-word area was rejected
StraddlingCountRejected ==
    /\ AreaSplit /\ th.case.name = "overrun" /\ th.case.a = 1 /\ th.case.b = 0
    /\ AreaWalk.index = 3 /\ InvalidDataReturned

\* token bytes running past the end were rejected with the index at the
\* token's first byte
TokenPastEndRejected ==
    /\ AreaSplit /\ th.case.name = "overrun" /\ th.case.a = 10 /\ th.case.b = 0
    /\ th.codec = "payload" /\ AreaWalk.index = 6 /\ InvalidDataReturned

\* a token ending with the last byte of the area was decoded
TokenAtEndDecoded ==
    /\ AreaSplit /\ th.case.name = "full" /\ th.case.a = 1 /\ th.case.b = 0
    /\ AreaWalk.index = AreaLength /\ th.last.dec = "Some"
    /\ th.out.ttheader.acl_token = Some(SmolStr(<<97, 98>>))

\* with total_length 0 the call panicked on the subtraction and the cut-off
\* count was never looked at
OverrunPanicked ==
    /\ AreaSplit /\ th.case.name = "overrun" /\ th.case.a = 1 /\ th.case.b = 1
    /\ th.last.dec = "panic"

\* the same frame on a build that wraps was rejected
OverrunWrappedRejected ==
    /\ AreaSplit /\ th.case.name = "overrun" /\ th.case.a = 1 /\ th.case.b = 1
    /\ InvalidDataReturned

(***************************************************************************)
(* FramedHeader::decode on the frames FramedHeader::encode produces        *)
(***************************************************************************)
\* the frame of the last encode call has been given to FramedHeader::decode
DecodedBack == mode = "fe" /\ th.st = "decoded"

\* the inner decoder's answer on the bytes the inner encoder wrote was the
\* answer of the call, and nothing was left in the source
InnerGotInnerBytes ==
    /\ th.left = <<>>
    /\ \E checks \in BOOLEAN :
        LET in == InnerDecode(th.inner, InnerBytes, checks)
        IN  /\ th.back.dec = in.dec /\ th.back.kind = in.kind
            /\ th.back.item = in.item /\ in.src = <<>>

\* C38: every frame produced by FramedHeader.encode is accepted by
\* FramedHeader.decode, which then passes the inner decoder exactly the
\* bytes the inner encoder wrote, for every body the inner encoder may
\* emit, including an empty body.
C38_FramedRoundTrip ==
    DecodedBack =>
        /\ th.back.dec = "Some"
        /\ InnerGotInnerBytes
        /\ th.inner = "raw" => th.back.item.payload.v = th.item.payload.v

\* as coded: a body of at least one byte comes back; the frame of an empty
\* body, 00 00 00 00, is rejected as an illegal body size and stays in the
\* source
FramedRoundTripAsCoded ==
    DecodedBack =>
        IF InnerBytes # <<>>
        THEN /\ th.back.dec = "Some"
             /\ InnerGotInnerBytes
             /\ th.inner = "raw" => th.back.item.payload.v = th.item.payload.v
        ELSE /\ th.inner = "raw" /\ th.item.payload.v = <<>>
             /\ th.back.dec = "Err" /\ th.back.kind = "Other"
             /\ th.left = to_be_bytes_i32(0)

\* the frame of the empty body was rejected
EmptyBodyRejected ==
    /\ DecodedBack /\ th.inner = "raw" /\ th.item.payload.v = <<>>
    /\ th.prev = <<>> /\ th.dst = <<0, 0, 0, 0>>
    /\ th.back.dec = "Err" /\ th.back.kind = "Other"

\* the ping body came back from its frame
PingCameBack ==
    /\ DecodedBack /\ th.inner = "raw" /\ th.item.payload.v = PingBody
    /\ th.back.dec = "Some" /\ th.back.item.payload.v = PingBody

\* E5's header came back from a frame behind an earlier one
HeaderCameBack ==
    /\ DecodedBack /\ th.inner = "ttheader" /\ th.calls = 2
    /\ th.item.ttheader = ScenarioE5 /\ th.back.dec = "Some"
    /\ th.back.item.ttheader.int_headers = ScenarioE5.int_headers

(***************************************************************************)
(* The end of the synchronous skip_field                                   *)
(***************************************************************************)
\* the loop of skip_field runs on as long as it has not returned
SpecSkipLive == SpecSkip /\ WF_vars(SkipStep)

\* C39: synchronous skip_field terminates on every finite input and for
\* every requested type: each iteration of its loop consumes at least one
\* input byte, decrements a collection counter, pops a frame, or returns
\* an error, so it always ends with Ok or with an error.
C39_SkipEndsOkOrError ==
    <>(mode = "skip" /\ sk.res \in {"Ok", "InvalidData"})

\* as coded: every run ends, with Ok, with InvalidData, or in the panic of
\* the map counter (C34) on a build with overflow checks
SkipEndsAsCoded ==
    <>(mode = "skip" /\ sk.res \in {"Ok", "InvalidData", "panic"})

\* the step has consumed input, lowered the counter of the collection it
\* was at, popped a frame or returned
StepProgress ==
    \/ sk'.pos > sk.pos
    \/ sk'.res # "running"
    \/ Len(sk'.stack) < Len(sk.stack)
    \/ /\ sk.cur.k = "Collection" /\ sk.cur.len # 0
       /\ Len(sk'.stack) = Len(sk.stack) + 1
       /\ sk'.stack[Len(sk'.stack)].k = "Collection"
       /\ sk'.stack[Len(sk'.stack)].len = U32Dec(sk.cur.len)

\* every step of the loop, and so every iteration, makes that progress; the
\* cursor never moves back and never leaves the input
SkipStepProgress ==
    [][(mode = "skip" /\ sk' # sk) =>
            /\ StepProgress
            /\ sk'.pos >= sk.pos /\ sk'.pos <= Len(sk.buf)
            /\ sk.res = "running"]_vars

\* only the map counter stands between a run and its Ok or error
PanicOnlyFromMapCount ==
    (mode = "skip" /\ sk.res = "panic") =>
        /\ skind = "hostile" /\ stype = T_Map
        /\ from_be_bytes_i32(Slice(sk.buf, sstart + 2, 4)) < 0

\* a list declaring 2^31 + 1 structs over 4 bytes ended with InvalidData
\* after its fourth element
HugeListRanDry ==
    /\ mode = "skip" /\ skind = "hostile" /\ stype = T_List
    /\ sk.buf = <<T_Struct, 128, 0, 0, 1, 0, 0, 0, 0>>
    /\ sk.res = "InvalidData" /\ sk.pos = 9 /\ Len(sk.stack) = 1
    /\ sk.stack[1].len = MaxI32 - 3

(***************************************************************************)
(* The slice read_more_at_least offers to the byte source                  *)
(***************************************************************************)
\* the loop of read_more_at_least is about to call io.read
SourceCalled ==
    mode = "amsg" /\ ak.m.res = "running" /\ ak.fill.on

\* the bytes the slice [read, end) has room for
Room == ak.fill.end - ak.fill.read

\* C40: every time read_more_at_least calls the byte source, the writable
\* slice it offers is non-empty (the number of bytes already filled is
\* below the reserved capacity), so a return value of 0 from the source
\* can only mean end of input and never a full buffer.
C40_SliceNonEmpty ==
    SourceCalled =>
        /\ ak.fill.read = Len(ak.m.buf)
        /\ ak.fill.read < ak.fill.at_least /\ ak.fill.at_least <= ak.fill.end
        /\ Room >= 1
        /\ (0 \in SourceReturns(ak.stream, ak.iopos, ak.fill))
                => ak.iopos = Len(ak.stream)

\* the loop is in a later pass, on a buffer that holds bytes, with bytes
\* left in the source and room for them
C40_Witness ==
    /\ SourceCalled /\ ak.reads >= 1 /\ Len(ak.m.buf) >= 1
    /\ ak.iopos < Len(ak.stream)
    /\ Room >= MIN_CAPACITY - Len(ak.m.buf)
    /\ 0 \notin SourceReturns(ak.stream, ak.iopos, ak.fill)

\* the source is called at its end: the 0 it returns is the end of input
SourceCalledAtEnd ==
    /\ SourceCalled /\ ak.iopos = Len(ak.stream) /\ Room >= 1
    /\ SourceReturns(ak.stream, ak.iopos, ak.fill) = {0}

\* the source is called for a name of 2^31 - 5 bytes or more
SourceCalledForHugeName ==
    /\ SourceCalled /\ ak.fill.at_least = Unbounded /\ Room >= 1


(***************************************************************************)
(* The capacity read_more_at_least finds after its reserve                 *)
(***************************************************************************)
\* while the loop runs, end is the capacity of the buffer and the bytes
\* asked for fit below it
EndIsCapacity ==
    /\ (mode = "aread" /\ ar.fill.on) =>
          /\ ar.fill.end = ar.bm.cap /\ ar.fill.read = Len(ar.att)
          /\ ar.fill.read < ar.fill.at_least /\ ar.fill.at_least <= ar.fill.end
          /\ ar.fill.end - ar.fill.read >= 1
    /\ (mode \in {"askip", "amsg"} /\ ak.fill.on) => ak.fill.end = ak.bm.cap

\* the first fill of a reader: a buffer of MIN_CAPACITY bytes
FirstFillReserved ==
    /\ mode = "aread" /\ ar.fill.on /\ ar.reads = 0
    /\ ar.bm = [BytesMut_new EXCEPT !.cap = MIN_CAPACITY, !.vcap = MIN_CAPACITY]

\* a later fill on a buffer whose first four bytes were consumed: the
\* vector doubled and the slice offered has room for 8186 bytes
LaterFillDoubled ==
    /\ mode = "aread" /\ ar.fill.on /\ ar.fill.read = 2
    /\ ar.bm = [BytesMut_new EXCEPT !.cap = 2 * MIN_CAPACITY - 4, !.off = 4,
                                     !.vcap = 2 * MIN_CAPACITY]
    /\ ar.fill.end - ar.fill.read = 8186

\* a fill after a read_bytes whose Bytes is still held: a new allocation
FillAfterSplitHeld ==
    /\ mode = "aread" /\ skind # "attachment" /\ ar.fill.on /\ Len(ar.out) >= 1
    /\ ar.script[Len(ar.out)] = "bytes"
    /\ ~ar.bm.shared /\ ar.bm.off = 0
    /\ ar.bm.cap = ar.bm.vcap /\ ar.bm.cap \notin {MIN_CAPACITY, 2 * MIN_CAPACITY}

\* a fill after a read_bytes whose Bytes was dropped: the allocation kept
FillAfterSplitDropped ==
    /\ mode = "aread" /\ ar.fill.on /\ ar.bm.shared /\ ar.bm.off > 0

\* the second fill of a skipper: the cursor leaves the bytes in the buffer
\* and the vector doubles
SkipperFillDoubled ==
    /\ mode = "askip" /\ ak.fill.on /\ ak.fill.read >= 1 /\ ak.reads = ak.fill.read
    /\ ak.bm = [BytesMut_new EXCEPT !.cap = 2 * MIN_CAPACITY,
                                     !.vcap = 2 * MIN_CAPACITY]

\* an attachment made with 8192 bytes of capacity, 7004 of them split off and
\* still held, 2 bytes in it: the fill for the other 2 of an i32 takes a new
\* allocation of the original capacity, not of the 4098 bytes asked for
FillKeptOriginalCapacity ==
    /\ mode = "aread" /\ skind = "attachment" /\ ar.fill.on /\ ar.reads = 0
    /\ ar.script = <<"i32">> /\ ar.fill.read = 2 /\ ar.fill.at_least = 4
    /\ ar.bm = [BytesMut_with_capacity(2 * MIN_CAPACITY) EXCEPT !.orig = 2 * MIN_CAPACITY]
    /\ ar.fill.end = 2 * MIN_CAPACITY

\* the same with the Bytes dropped: the 8192 bytes are reused from their
\* start
FillReclaimedShared ==
    /\ mode = "aread" /\ skind = "attachment" /\ ar.fill.on /\ ar.reads = 0
    /\ ar.script = <<"i32">> /\ ar.fill.read = 2
    /\ ar.bm = [Attachment(2 * MIN_CAPACITY, 7004) EXCEPT !.cap = 2 * MIN_CAPACITY, !.off = 0]

\* an attachment made with 10000 bytes of capacity: no reserve is needed and
\* the slice offered ends at 10000
FillInLargeAttachment ==
    /\ mode = "aread" /\ skind = "attachment" /\ ar.fill.on /\ ar.reads = 0
    /\ ar.bm = BytesMut_with_capacity(10000) /\ ar.fill.end = 10000

\* a reserve on a shared allocation that another handle refers to never
\* leaves less than the original capacity
OriginalCapacityKept ==
    (mode = "aread" /\ ar.fill.on /\ ~ar.bm.shared /\ ar.bm.off = 0)
        => ar.bm.cap >= ar.bm.orig

=============================================================================
